---- MODULE Spec2Model ----
(***************************************************************************)
(* A model of the Pregel driver of ibisgraph (src/ibisgraph/pregel):       *)
(* the fluent builder of class Pregel, Pregel._validate and the superstep  *)
(* loop of Pregel.run, over small graphs and a small language of the       *)
(* expressions a caller can hand to the builder.                           *)
(***************************************************************************)
EXTENDS Integers, Sequences, FiniteSets, TLC

VARIABLES
    graph,              \* the IbisGraph the Pregel was constructed with
    self,               \* the fields of the Pregel object
    pc,                 \* "config", "rejected" (a setter raised), "running",
                        \* "returned", "raised" (run() raised)
    raised,             \* the exception the last call raised, or "None"
    it,                 \* local `it` of run()
    pregel_nodes_data,  \* local `pregel_nodes_data` of run(): State(t)
    stop_reason,        \* the way the loop of run() was left
    backend,            \* the materializations run() asked of the backend
    result,             \* the relation run() returned
    args,               \* the arguments of the IbisGraph constructor call
    num_nodes           \* what the property num_nodes returned, or Null

vars == <<graph, self, pc, raised, it, pregel_nodes_data,
          stop_reason, backend, result, args, num_nodes>>

-----------------------------------------------------------------------------
(* Bounds *)

\* settings (fields, declared columns, declared messages) in which an explored
\* builder differs from a fresh one
MaxSettings == 6
\* message declarations a builder may hold
MaxMessages == 2
MaxInterval == 3
CommuteDepth == 3
MaxChain == 5

-----------------------------------------------------------------------------
(* Names: IbisGraphConstants and PregelConstants *)

ID == "id_"
SRC == "src_"
DST == "dst_"
WEIGHT == "weight_"
MSG_COL_NAME == "_pregel_msg"
ACTIVE_VERTEX_FLAG == "_active_flag"

\* A missing value (None in Python, NULL in the backend); a present value v
\* of a nullable expression is <<v>>.
Null == <<>>

\* no constructor call is followed: the graph is taken as constructed
NoArgs == <<>>

NoTable == [columns |-> <<>>, rows |-> <<>>]

Range(s) == {s[i] : i \in DOMAIN s}

-----------------------------------------------------------------------------
(* Numbers of the PageRank expressions.  A float is a fraction <<n, d>> in   *)
(* lowest terms with d > 0, so that the arithmetic of the expressions is     *)
(* exact.                                                                    *)

RECURSIVE GCD(_, _)
GCD(a, b) == IF b = 0 THEN a ELSE GCD(b, a % b)

Q(n, d) ==
    LET g == GCD(IF n < 0 THEN -n ELSE n, d) IN <<n \div g, d \div g>>

QInt(n) == <<n, 1>>

QAdd(x, y) ==
    LET g == GCD(x[2], y[2])
    IN  Q(x[1] * (y[2] \div g) + y[1] * (x[2] \div g), (x[2] \div g) * y[2])

QSub(x, y) == QAdd(x, <<-y[1], y[2]>>)

QMul(x, y) ==
    LET a == Q(x[1], y[2])
        b == Q(y[1], x[2])
    IN  <<a[1] * b[1], a[2] * b[2]>>

\* x / y for y > 0
QDiv(x, y) == QMul(x, <<y[2], y[1]>>)

QAbs(x) == <<IF x[1] < 0 THEN -x[1] ELSE x[1], x[2]>>

QGeq(x, y) == QSub(x, y)[1] >= 0

-----------------------------------------------------------------------------
(* Graphs *)

\* chain_graph of the test fixtures, with n vertices: ids 1..n, edges (i, i+1)
ChainGraph(n) ==
    [nodes |-> [columns |-> <<ID>>,
                rows |-> [i \in 1..n |-> [id_ |-> i]]],
     edges |-> [columns |-> <<SRC, DST>>,
                rows |-> [i \in 1..(n - 1) |-> [src_ |-> i, dst_ |-> i + 1]]]]

\* Two edges into vertex 3, a path 1 -> 3 -> 4 and an isolated vertex 5; the
\* vertex relation carries a user column besides the id.
FanInGraph ==
    [nodes |-> [columns |-> <<ID, "name">>,
                rows |-> [i \in 1..5 |-> [id_ |-> i, name |-> 10 * i]]],
     edges |-> [columns |-> <<SRC, DST>>,
                rows |-> <<[src_ |-> 1, dst_ |-> 3], [src_ |-> 2, dst_ |-> 3],
                           [src_ |-> 3, dst_ |-> 4]>>]]

Graphs == {ChainGraph(0), FanInGraph}

-----------------------------------------------------------------------------
(* page_rank: the literals of its expressions *)

\* the teleport term not shared among the vertices
coeff_of_the_graph(alpha, n) == QSub(QInt(1), alpha)

\* coeff = (1 - alpha) / num_nodes
coeff(alpha, n) == QDiv(QSub(QInt(1), alpha), QInt(n))

\* initial_scores = 1.0 / num_nodes
initial_scores(n) == QDiv(QInt(1), QInt(n))

\* rank_upd_expr: ifelse(msg.isnull(), 0.0, msg) * alpha + coeff
rank_upd_expr(msg, alpha, n) ==
    QAdd(QMul(IF msg = Null THEN QInt(0) ELSE msg[1], alpha), coeff(alpha, n))

-----------------------------------------------------------------------------
(* The expressions handed to the builder *)

\* initial expressions of a vertex column, evaluated on a vertex row
EvalInitial(expr, row) ==
    CASE expr = "id_is_1" -> IF row[ID] = 1 THEN 1 ELSE 0
      [] expr = "zero" -> 0
      [] expr = "initial_scores" -> initial_scores(num_nodes[1])
      [] expr = "literal_100" -> QInt(100)

\* initial expressions of the active flag
EvalInitialActive(expr, row) ==
    CASE expr = "true" -> TRUE
      [] expr = "id_is_1" -> row[ID] = 1

\* columns an update expression reads, besides _pregel_msg
UpdateRefs(expr) ==
    CASE expr = "max_msg_value" -> {"value"}
      [] expr = "copy_value" -> {"value"}
      [] expr = "msg_or_zero" -> {}
      [] expr = "value_is_zero" -> {"value"}
      [] expr = "rank_upd_expr" -> {}
      [] expr = "pagerank_minus_rank_upd_expr_abs" -> {"pagerank"}
      [] expr = "err_ge_tol" -> {"err"}

\* an update that keeps the value whatever the message is
EvalUpdateKeepingValue(expr, row) == row["value"]

\* update expressions, evaluated on a row of State(t) left-joined with the
\* aggregated messages
EvalUpdate(expr, row) ==
    LET msg == row[MSG_COL_NAME] IN
    CASE expr = "max_msg_value" ->
            IF msg # Null /\ msg[1] > row["value"] THEN msg[1] ELSE row["value"]
      [] expr = "copy_value" -> row["value"]
      [] expr = "msg_or_zero" -> IF msg = Null THEN 0 ELSE msg[1]
      [] expr = "value_is_zero" -> row["value"] = 0
      [] expr = "rank_upd_expr" -> rank_upd_expr(msg, args.alpha, num_nodes[1])
      [] expr = "pagerank_minus_rank_upd_expr_abs" ->
            QAbs(QSub(row["pagerank"], rank_upd_expr(msg, args.alpha, num_nodes[1])))
      [] expr = "err_ge_tol" -> QGeq(row["err"], args.tol)

\* columns of the endpoints a message expression reads
MessageRefs(expr) ==
    CASE expr = "src_value_if_dst_le" -> {"value"}
      [] expr = "src_value_if_dst_lt" -> {"value"}
      [] expr = "null" -> {}
      [] expr = "src_pagerank_per_degree" -> {"pagerank", "degree"}
      [] expr = "dst_pagerank_per_degree" -> {"pagerank", "degree"}

\* message expressions, evaluated on a triplet
EvalMessage(expr, src, dst) ==
    CASE expr = "src_value_if_dst_le" ->
            IF dst["value"] <= src["value"] THEN <<src["value"]>> ELSE Null
      [] expr = "src_value_if_dst_lt" ->
            IF dst["value"] < src["value"] THEN <<src["value"]>> ELSE Null
      [] expr = "null" -> Null
      [] expr = "src_pagerank_per_degree" -> <<QDiv(src["pagerank"], QInt(src["degree"]))>>
      [] expr = "dst_pagerank_per_degree" -> <<QDiv(dst["pagerank"], QInt(dst["degree"]))>>

-----------------------------------------------------------------------------
(* The builder: Pregel.__init__ and the setters.  A setter is an operator   *)
(* from the object's fields to the outcome of the call: the fields after    *)
(* it and the exception it raised ("None" when it returned the builder).    *)

Returned(s) == [self |-> s, raised |-> "None"]
Raised(s, exc) == [self |-> s, raised |-> exc]

NewPregel ==
    [has_active_flag |-> FALSE,
     initial_active_flag |-> "true",
     vertex_cols |-> <<>>,
     messages |-> <<>>,
     agg_expression_func |-> "None",
     do_early_stopping |-> TRUE,
     max_iter |-> 10,
     checkpoint_interval |-> 1,
     active_flag_upd_expr |-> "None",
     filter_messages_from_non_active |-> FALSE,
     stop_if_all_non_active |-> FALSE]

PregelVertexColumn(col_name, initial_expr, update_expr) ==
    [col_name |-> col_name, initial_expr |-> initial_expr, update_expr |-> update_expr]

PregelMessage(target_column, msg_expr) ==
    [target_column |-> target_column, msg_expr |-> msg_expr]

\* names of the declared vertex columns, in the order of the dict
ColNames(vertex_cols) == [k \in DOMAIN vertex_cols |-> vertex_cols[k].col_name]

\* self._vertex_cols[col_name] = PregelVertexColumn(...): a dict keeps the
\* position of a key it already holds and appends a new one
add_vertex_col(s, col_name, initial_expr, update_expr) ==
    LET new == PregelVertexColumn(col_name, initial_expr, update_expr)
        old == s.vertex_cols
    IN  Returned([s EXCEPT !.vertex_cols =
            IF col_name \in Range(ColNames(old))
            THEN [k \in DOMAIN old |-> IF old[k].col_name = col_name THEN new ELSE old[k]]
            ELSE Append(old, new)])

remove_vertex_col(s, col_name) ==
    Returned([s EXCEPT !.vertex_cols =
        SelectSeq(s.vertex_cols, LAMBDA vc : vc.col_name # col_name)])

add_message_to_src(s, message) ==
    Returned([s EXCEPT !.messages = Append(s.messages, PregelMessage(SRC, message))])

add_message_to_dst(s, message) ==
    Returned([s EXCEPT !.messages = Append(s.messages, PregelMessage(DST, message))])

set_has_active_flag(s, value) ==
    Returned([s EXCEPT !.has_active_flag = value])

set_initial_active_flag(s, expression) ==
    Returned([s EXCEPT !.has_active_flag = TRUE, !.initial_active_flag = expression])

set_agg_expression_func(s, expression) ==
    Returned([s EXCEPT !.agg_expression_func = expression])

set_early_stopping(s, value) ==
    Returned([s EXCEPT !.do_early_stopping = value])

\* the range check of set_max_iter letting zero through
set_max_iter_nonnegative(s, value) ==
    IF value < 0
    THEN Raised(s, "ValueError")
    ELSE Returned([s EXCEPT !.max_iter = value])

set_max_iter(s, value) ==
    IF value <= 0
    THEN Raised(s, "ValueError")
    ELSE Returned([s EXCEPT !.max_iter = value])

set_checkpoint_interval(s, value) ==
    IF value < 0
    THEN Raised(s, "ValueError")
    ELSE Returned([s EXCEPT !.checkpoint_interval = value])

set_active_flag_upd_col(s, expression) ==
    Returned([s EXCEPT !.active_flag_upd_expr = expression])

\* a filter setter that switches the active flag on as well
set_filter_enabling_active_flag(s, value) ==
    Returned([s EXCEPT !.filter_messages_from_non_active = value,
                       !.has_active_flag = TRUE])

set_filter_messages_from_non_active(s, value) ==
    Returned([s EXCEPT !.filter_messages_from_non_active = value])

set_stop_if_all_unactive(s, value) ==
    Returned([s EXCEPT !.stop_if_all_non_active = value])

(* A setter call with its arguments; the fields a setter does not take are  *)
(* left at "", FALSE and 0.                                                  *)
SetterCall(name, col_name, initial_expr, expr, flag, value) ==
    [name |-> name, col_name |-> col_name, initial_expr |-> initial_expr,
     expr |-> expr, flag |-> flag, value |-> value]

Invoke(s, c) ==
    CASE c.name = "add_vertex_col" -> add_vertex_col(s, c.col_name, c.initial_expr, c.expr)
      [] c.name = "remove_vertex_col" -> remove_vertex_col(s, c.col_name)
      [] c.name = "add_message_to_src" -> add_message_to_src(s, c.expr)
      [] c.name = "add_message_to_dst" -> add_message_to_dst(s, c.expr)
      [] c.name = "set_has_active_flag" -> set_has_active_flag(s, c.flag)
      [] c.name = "set_initial_active_flag" -> set_initial_active_flag(s, c.expr)
      [] c.name = "set_agg_expression_func" -> set_agg_expression_func(s, c.expr)
      [] c.name = "set_early_stopping" -> set_early_stopping(s, c.flag)
      [] c.name = "set_max_iter" -> set_max_iter(s, c.value)
      [] c.name = "set_checkpoint_interval" -> set_checkpoint_interval(s, c.value)
      [] c.name = "set_active_flag_upd_col" -> set_active_flag_upd_col(s, c.expr)
      [] c.name = "set_filter_messages_from_non_active" ->
            set_filter_messages_from_non_active(s, c.flag)
      [] c.name = "set_stop_if_all_unactive" -> set_stop_if_all_unactive(s, c.flag)

(* The calls explored *)
VertexColCalls ==
    {SetterCall("add_vertex_col", "value", "id_is_1", "max_msg_value", FALSE, 0),
     SetterCall("add_vertex_col", "value", "id_is_1", "msg_or_zero", FALSE, 0),
     SetterCall("add_vertex_col", "prev", "zero", "copy_value", FALSE, 0)}
RemoveColCalls ==
    {SetterCall("remove_vertex_col", n, "", "", FALSE, 0) : n \in {"value", "prev"}}
MessageToSrcCalls ==
    {SetterCall("add_message_to_src", "", "", "src_value_if_dst_le", FALSE, 0)}
MessageToDstCalls ==
    {SetterCall("add_message_to_dst", "", "", e, FALSE, 0) :
        e \in {"src_value_if_dst_le", "src_value_if_dst_lt", "null"}}
HasActiveFlagCalls ==
    {SetterCall("set_has_active_flag", "", "", "", b, 0) : b \in BOOLEAN}
InitialActiveFlagCalls ==
    {SetterCall("set_initial_active_flag", "", "", "id_is_1", FALSE, 0)}
AggCalls ==
    {SetterCall("set_agg_expression_func", "", "", f, FALSE, 0) : f \in {"max", "sum"}}
EarlyStoppingCalls ==
    {SetterCall("set_early_stopping", "", "", "", FALSE, 0)}
MaxIterCalls ==
    {SetterCall("set_max_iter", "", "", "", FALSE, v) : v \in -1..2}
CheckpointCalls ==
    {SetterCall("set_checkpoint_interval", "", "", "", FALSE, v) : v \in {-1, 0, 2}}
ActiveFlagUpdCalls ==
    {SetterCall("set_active_flag_upd_col", "", "", "value_is_zero", FALSE, 0)}
FilterCalls ==
    {SetterCall("set_filter_messages_from_non_active", "", "", "", TRUE, 0)}
StopIfAllUnactiveCalls ==
    {SetterCall("set_stop_if_all_unactive", "", "", "", TRUE, 0)}

SetterCalls ==
    VertexColCalls \cup RemoveColCalls \cup MessageToSrcCalls \cup MessageToDstCalls
    \cup HasActiveFlagCalls \cup InitialActiveFlagCalls \cup AggCalls
    \cup EarlyStoppingCalls \cup MaxIterCalls \cup CheckpointCalls
    \cup ActiveFlagUpdCalls \cup FilterCalls \cup StopIfAllUnactiveCalls

-----------------------------------------------------------------------------
(* Relations.  A relation is a list of column names and a list of rows; a    *)
(* row is a function from the column names to values.                        *)

RECURSIVE Concat(_)
Concat(seqs) == IF seqs = <<>> THEN <<>> ELSE Head(seqs) \o Concat(Tail(seqs))

RECURSIVE SetToSeq(_)
SetToSeq(S) ==
    IF S = {} THEN <<>>
    ELSE LET x == CHOOSE y \in S : TRUE IN <<x>> \o SetToSeq(S \ {x})

RECURSIVE SortedSeq(_)
SortedSeq(S) ==
    IF S = {} THEN <<>>
    ELSE LET x == CHOOSE y \in S : \A z \in S : y <= z IN <<x>> \o SortedSeq(S \ {x})

\* table.drop(col)
Drop(table, col) ==
    LET keep == SelectSeq(table.columns, LAMBDA c : c # col)
    IN  [columns |-> keep,
         rows |-> [k \in DOMAIN table.rows |-> [c \in Range(keep) |-> table.rows[k][c]]]]

\* left.join(right, [id_], how="left"): every row of left once per row of
\* right with the same id_, and once with a null message when there is none
LeftJoin(left, right) ==
    LET joined(l) ==
            LET m == SelectSeq(right.rows, LAMBDA r : r[ID] = l[ID])
                with(v) == [c \in DOMAIN l \cup {MSG_COL_NAME} |->
                                IF c = MSG_COL_NAME THEN v ELSE l[c]]
            IN  IF m = <<>> THEN <<with(Null)>>
                ELSE [k \in DOMAIN m |-> with(m[k][MSG_COL_NAME])]
    IN  [columns |-> Append(left.columns, MSG_COL_NAME),
         rows |-> Concat([k \in DOMAIN left.rows |-> joined(left.rows[k])])]

\* the aggregators handed to set_agg_expression_func, on the list of the
\* messages of one group
RECURSIVE Aggregate(_, _)
Aggregate(func, msgs) ==
    IF Len(msgs) = 1 THEN Head(msgs)
    ELSE LET rest == Aggregate(func, Tail(msgs)) IN
         CASE func = "max" -> IF Head(msgs) > rest THEN Head(msgs) ELSE rest
           [] func = "sum" -> Head(msgs) + rest
           [] func = "collect_sums" -> QAdd(Head(msgs), rest)

\* the messages joined as they are, without the aggregation
Ungrouped(table, func) == table

\* table.group_by(id_).agg(_pregel_msg = func(msg_col)): one row per id_
GroupByAgg(table, func) ==
    LET ids == SortedSeq({r[ID] : r \in Range(table.rows)})
        group(v) == SelectSeq(table.rows, LAMBDA r : r[ID] = v)
        msgs(v) == [k \in DOMAIN group(v) |-> group(v)[k][MSG_COL_NAME][1]]
    IN  [columns |-> <<ID, MSG_COL_NAME>>,
         rows |-> [k \in DOMAIN ids |->
                    [id_ |-> ids[k], _pregel_msg |-> <<Aggregate(func, msgs(ids[k]))>>]]]

-----------------------------------------------------------------------------
(* Pregel.run.  The locals of a call of run() are a record                   *)
(*   [pc, raised, it, pregel_nodes_data, stop_reason, backend, result];      *)
(* the steps of run() are operators on it.                                   *)

NoRun ==
    [pc |-> "config", raised |-> "None", it |-> 0, pregel_nodes_data |-> NoTable,
     stop_reason |-> "none", backend |-> <<>>, result |-> NoTable]

\* a materialization asked of the backend during iteration i (0: before the loop)
Materialize(op, i) == [op |-> op, it |-> i]

\* Pregel._validate: the exception it raises, or "None"
Validate(s) ==
    IF s.agg_expression_func = "None" THEN "ValueError"
    ELSE IF Len(s.messages) = 0 THEN "ValueError"
    ELSE IF Len(s.vertex_cols) = 0 THEN "ValueError"
    ELSE "None"

\* the declaration of the vertex column called name
VertexCol(s, name) ==
    s.vertex_cols[CHOOSE k \in DOMAIN s.vertex_cols : s.vertex_cols[k].col_name = name]

\* columns of State(t): graph_columns / new_columns of run()
StateColumns(s, g) ==
    g.nodes.columns \o ColNames(s.vertex_cols)
        \o (IF s.has_active_flag THEN <<ACTIVE_VERTEX_FLAG>> ELSE <<>>)

\* State(0): self._graph._nodes.select(*graph_columns)
InitialState(s, g) ==
    LET cols == StateColumns(s, g)
        declared == Range(ColNames(s.vertex_cols))
        value(row, c) ==
            IF c = ACTIVE_VERTEX_FLAG /\ s.has_active_flag
            THEN EvalInitialActive(s.initial_active_flag, row)
            ELSE IF c \in declared THEN EvalInitial(VertexCol(s, c).initial_expr, row)
            ELSE row[c]
    IN  [columns |-> cols,
         rows |-> [k \in DOMAIN g.nodes.rows |->
                    [c \in Range(cols) |-> value(g.nodes.rows[k], c)]]]

\* a start that leaves the packed edges lazy
StartWithLazyEdges(s, g) ==
    IF Validate(s) # "None"
    THEN [NoRun EXCEPT !.pc = "raised", !.raised = Validate(s)]
    ELSE [NoRun EXCEPT !.pc = "running",
                       !.pregel_nodes_data = InitialState(s, g)]

\* validation and the code before the loop
Start(s, g) ==
    IF Validate(s) # "None"
    THEN [NoRun EXCEPT !.pc = "raised", !.raised = Validate(s)]
    ELSE [NoRun EXCEPT !.pc = "running",
                       !.pregel_nodes_data = InitialState(s, g),
                       !.backend = <<Materialize("cache_edges", 0)>>]

\* the triplets of a superstep, as (index of the source row, index of the
\* edge, index of the destination row): the two inner joins
Triplets(g, state) ==
    {t \in (DOMAIN state.rows) \X (DOMAIN g.edges.rows) \X (DOMAIN state.rows) :
        /\ state.rows[t[1]][ID] = g.edges.rows[t[2]][SRC]
        /\ state.rows[t[3]][ID] = g.edges.rows[t[2]][DST]}

\* the triplets with the filter left out
UnfilteredTriplets(s, g, state) == Triplets(g, state)

\* a filter that keeps a triplet only when both its endpoints are active
FilteredTripletsBothActive(s, g, state) ==
    IF s.filter_messages_from_non_active
    THEN {t \in Triplets(g, state) :
            /\ state.rows[t[1]][ACTIVE_VERTEX_FLAG]
            /\ state.rows[t[3]][ACTIVE_VERTEX_FLAG]}
    ELSE Triplets(g, state)

\* triplets.filter(ibis.or_(src_active, dst_active)) when the filter is set
FilteredTriplets(s, g, state) ==
    IF s.filter_messages_from_non_active
    THEN {t \in Triplets(g, state) :
            \/ state.rows[t[1]][ACTIVE_VERTEX_FLAG]
            \/ state.rows[t[3]][ACTIVE_VERTEX_FLAG]}
    ELSE Triplets(g, state)

\* every message addressed to the destination of its edge
NewMessagesToDst(s, g, state) ==
    LET msg(t, k) == EvalMessage(s.messages[k].msg_expr,
                                 state.rows[t[1]], state.rows[t[3]])
        unnested == FilteredTriplets(s, g, state) \X (DOMAIN s.messages)
        notnull == SetToSeq({u \in unnested : msg(u[1], u[2]) # Null})
    IN  [columns |-> <<ID, MSG_COL_NAME>>,
         rows |-> [n \in DOMAIN notnull |->
                    [id_ |-> state.rows[notnull[n][1][3]][ID],
                     _pregel_msg |-> msg(notnull[n][1], notnull[n][2])]]]

\* new_messages_table: one row per triplet and message declaration whose
\* message is not null, addressed to the id_ of the declaration's target
NewMessages(s, g, state) ==
    LET msg(t, k) == EvalMessage(s.messages[k].msg_expr,
                                 state.rows[t[1]], state.rows[t[3]])
        target(t, k) == IF s.messages[k].target_column = SRC
                        THEN state.rows[t[1]][ID] ELSE state.rows[t[3]][ID]
        unnested == FilteredTriplets(s, g, state) \X (DOMAIN s.messages)
        notnull == SetToSeq({u \in unnested : msg(u[1], u[2]) # Null})
    IN  [columns |-> <<ID, MSG_COL_NAME>>,
         rows |-> [n \in DOMAIN notnull |->
                    [id_ |-> target(notnull[n][1], notnull[n][2]),
                     _pregel_msg |-> msg(notnull[n][1], notnull[n][2])]]]

\* the exception building the message plan raises, or "None": a struct has
\* no field _active_flag when the flag is off, and none of a column that is
\* not declared
MessagePlanError(s, state) ==
    IF s.filter_messages_from_non_active /\ ACTIVE_VERTEX_FLAG \notin Range(state.columns)
    THEN "KeyError"
    ELSE IF \E k \in DOMAIN s.messages :
                ~(MessageRefs(s.messages[k].msg_expr) \subseteq Range(state.columns))
    THEN "KeyError"
    ELSE "None"

\* an active flag that a message cannot switch on again
ActiveFlagUpdateSticky(s, row) ==
    row[ACTIVE_VERTEX_FLAG] /\ row[MSG_COL_NAME] # Null

\* the update expression of the active flag
ActiveFlagUpdate(s, row) ==
    IF s.active_flag_upd_expr # "None"
    THEN EvalUpdate(s.active_flag_upd_expr, row)
    ELSE row[MSG_COL_NAME] # Null

\* the exception binding the update expressions raises, or "None"
UpdatePlanError(s, joined) ==
    IF \E k \in DOMAIN s.vertex_cols :
            ~(UpdateRefs(s.vertex_cols[k].update_expr) \subseteq Range(joined.columns))
    THEN "IbisTypeError"
    ELSE IF /\ s.has_active_flag
            /\ s.active_flag_upd_expr # "None"
            /\ ~(UpdateRefs(s.active_flag_upd_expr) \subseteq Range(joined.columns))
    THEN "IbisTypeError"
    ELSE "None"

\* updates applied in turn: an expression sees the new values of the other
\* declared columns
ApplyUpdatesInTurn(s, g, joined) ==
    LET cols == StateColumns(s, g)
        declared == Range(ColNames(s.vertex_cols))
        updated(row, c) ==
            [d \in DOMAIN row |->
                IF d \in declared \ {c}
                THEN EvalUpdate(VertexCol(s, d).update_expr, row) ELSE row[d]]
        value(row, c) ==
            IF c = ACTIVE_VERTEX_FLAG /\ s.has_active_flag
            THEN ActiveFlagUpdate(s, updated(row, c))
            ELSE IF c \in declared
            THEN EvalUpdate(VertexCol(s, c).update_expr, updated(row, c))
            ELSE row[c]
    IN  [columns |-> cols,
         rows |-> [k \in DOMAIN joined.rows |->
                    [c \in Range(cols) |-> value(joined.rows[k], c)]]]

\* an update that keeps only the id of the original columns
ApplyUpdatesDroppingOriginals(s, g, joined) ==
    LET cols == StateColumns(s, g)
        declared == Range(ColNames(s.vertex_cols))
        value(row, c) ==
            IF c = ACTIVE_VERTEX_FLAG /\ s.has_active_flag
            THEN ActiveFlagUpdate(s, row)
            ELSE IF c \in declared THEN EvalUpdate(VertexCol(s, c).update_expr, row)
            ELSE IF c = ID THEN row[c]
            ELSE 0
    IN  [columns |-> cols,
         rows |-> [k \in DOMAIN joined.rows |->
                    [c \in Range(cols) |-> value(joined.rows[k], c)]]]

\* State(t+1): pregel_nodes_data.select(*new_columns) on the joined relation
ApplyUpdates(s, g, joined) ==
    LET cols == StateColumns(s, g)
        declared == Range(ColNames(s.vertex_cols))
        value(row, c) ==
            IF c = ACTIVE_VERTEX_FLAG /\ s.has_active_flag
            THEN ActiveFlagUpdate(s, row)
            ELSE IF c \in declared THEN EvalUpdate(VertexCol(s, c).update_expr, row)
            ELSE row[c]
    IN  [columns |-> cols,
         rows |-> [k \in DOMAIN joined.rows |->
                    [c \in Range(cols) |-> value(joined.rows[k], c)]]]

NoMessagesOrOne(new_messages_table) == Len(new_messages_table.rows) <= 1

\* the early-stopping probe: new_messages_table.count() == 0
NoMessages(new_messages_table) == Len(new_messages_table.rows) = 0

\* a schedule that counts the supersteps from 0
ShouldCheckpointCountingFromZero(s, i) ==
    (s.checkpoint_interval > 0) /\ ((i - 1) % s.checkpoint_interval = 0)

\* the condition of the checkpoint, `it` already incremented
ShouldCheckpoint(s, i) ==
    (s.checkpoint_interval > 0) /\ (i # 0) /\ (i % s.checkpoint_interval = 0)

\* a probe that fires as soon as one vertex is inactive
AnyNonActive(state) ==
    \E r \in Range(state.rows) : ~r[ACTIVE_VERTEX_FLAG]

\* the all-inactive probe: one distinct value of _active_flag, and it is false
AllNonActive(state) ==
    LET all_active == {r[ACTIVE_VERTEX_FLAG] : r \in Range(state.rows)}
    IN  Cardinality(all_active) = 1 /\ all_active = {FALSE}

\* the state returned as it is, _active_flag included
ReturnWithoutDrop(s, l, reason) ==
    [l EXCEPT !.pc = "returned",
              !.stop_reason = reason,
              !.result = l.pregel_nodes_data]

\* the code after the loop
Return(s, l, reason) ==
    [l EXCEPT !.pc = "returned",
              !.stop_reason = reason,
              !.result = IF s.has_active_flag
                         THEN Drop(l.pregel_nodes_data, ACTIVE_VERTEX_FLAG)
                         ELSE l.pregel_nodes_data]

Raise(l, exc) == [l EXCEPT !.pc = "raised", !.raised = exc]

\* a checkpoint that caches the state of the superstep before
CheckpointedStale(s, l, tmp_pregel_nodes_data) ==
    IF ShouldCheckpoint(s, l.it)
    THEN [l EXCEPT !.backend = Append(l.backend, Materialize("cache", l.it))]
    ELSE [l EXCEPT !.pregel_nodes_data = tmp_pregel_nodes_data]

\* what the state of a superstep becomes once its update is built
Checkpointed(s, l, tmp_pregel_nodes_data) ==
    [l EXCEPT !.pregel_nodes_data = tmp_pregel_nodes_data,
              !.backend = IF ShouldCheckpoint(s, l.it)
                          THEN Append(l.backend, Materialize("cache", l.it))
                          ELSE l.backend]

\* the end of the loop body: the all-inactive probe
StopProbe(s, l) ==
    IF ~s.stop_if_all_non_active THEN l
    ELSE IF ACTIVE_VERTEX_FLAG \notin Range(l.pregel_nodes_data.columns)
    THEN Raise(l, "IbisTypeError")
    ELSE LET probed == [l EXCEPT !.backend = Append(l.backend, Materialize("distinct", l.it))]
         IN  IF AllNonActive(l.pregel_nodes_data)
             THEN Return(s, probed, "all_inactive")
             ELSE probed

\* the early-stopping probe moved behind the update
SuperstepProbeAfterUpdate(s, g, l0) ==
    LET l == [l0 EXCEPT !.it = l0.it + 1]
        state == l.pregel_nodes_data
    IN  IF MessagePlanError(s, state) # "None"
        THEN Raise(l, MessagePlanError(s, state))
        ELSE
        LET new_messages_table == NewMessages(s, g, state)
            counted == IF s.do_early_stopping
                       THEN [l EXCEPT !.backend = Append(l.backend, Materialize("count", l.it))]
                       ELSE l
            joined == LeftJoin(state, GroupByAgg(new_messages_table, s.agg_expression_func))
        IN  IF UpdatePlanError(s, joined) # "None"
            THEN Raise(counted, UpdatePlanError(s, joined))
            ELSE IF s.do_early_stopping /\ NoMessages(new_messages_table)
            THEN Return(s, Checkpointed(s, counted, ApplyUpdates(s, g, joined)), "no_messages")
            ELSE StopProbe(s, Checkpointed(s, counted, ApplyUpdates(s, g, joined)))

\* one pass through the body of the loop
Superstep(s, g, l0) ==
    LET l == [l0 EXCEPT !.it = l0.it + 1]
        state == l.pregel_nodes_data
    IN  IF MessagePlanError(s, state) # "None"
        THEN Raise(l, MessagePlanError(s, state))
        ELSE
        LET new_messages_table == NewMessages(s, g, state)
            counted == IF s.do_early_stopping
                       THEN [l EXCEPT !.backend = Append(l.backend, Materialize("count", l.it))]
                       ELSE l
        IN  IF s.do_early_stopping /\ NoMessages(new_messages_table)
            THEN Return(s, counted, "no_messages")
            ELSE
            LET aggregated_messages == GroupByAgg(new_messages_table, s.agg_expression_func)
                joined == LeftJoin(state, aggregated_messages)
            IN  IF UpdatePlanError(s, joined) # "None"
                THEN Raise(counted, UpdatePlanError(s, joined))
                ELSE StopProbe(s, Checkpointed(s, counted, ApplyUpdates(s, g, joined)))

LoopConditionOffByOne(s, l) == l.it <= s.max_iter

\* the condition of the loop: while it < self._max_iter
LoopCondition(s, l) == l.it < s.max_iter

\* the loop is left because its condition is false
LoopExit(s, l) == Return(s, l, "max_iter")

RECURSIVE RunLoop(_, _, _)
RunLoop(s, g, l) ==
    IF l.pc # "running" THEN l
    ELSE IF LoopCondition(s, l) THEN RunLoop(s, g, Superstep(s, g, l))
    ELSE LoopExit(s, l)

\* a whole call of run()
run(s, g) == RunLoop(s, g, Start(s, g))

-----------------------------------------------------------------------------
(* The state machine *)

Locals ==
    [pc |-> pc, raised |-> raised, it |-> it, pregel_nodes_data |-> pregel_nodes_data,
     stop_reason |-> stop_reason, backend |-> backend, result |-> result]

SetLocals(l) ==
    /\ pc' = l.pc
    /\ raised' = l.raised
    /\ it' = l.it
    /\ pregel_nodes_data' = l.pregel_nodes_data
    /\ stop_reason' = l.stop_reason
    /\ backend' = l.backend
    /\ result' = l.result

Init ==
    /\ graph \in Graphs
    /\ self = NewPregel
    /\ pc = NoRun.pc
    /\ raised = NoRun.raised
    /\ it = NoRun.it
    /\ pregel_nodes_data = NoRun.pregel_nodes_data
    /\ stop_reason = NoRun.stop_reason
    /\ backend = NoRun.backend
    /\ result = NoRun.result
    /\ args = NoArgs
    /\ num_nodes = Null


\* the number of settings in which s differs from a fresh builder
Settings(s) ==
    Len(s.vertex_cols) + Len(s.messages)
    + Cardinality({f \in DOMAIN s \ {"vertex_cols", "messages"} : s[f] # NewPregel[f]})

\* a setter call on the builder, before run(): it returns the builder, or
\* its exception ends the chain of calls
Call(c) ==
    /\ Settings(Invoke(self, c).self) <= MaxSettings
    /\ self' = Invoke(self, c).self
    /\ raised' = Invoke(self, c).raised
    /\ pc' = IF Invoke(self, c).raised = "None" THEN "config" ELSE "rejected"
    /\ UNCHANGED <<graph, it, pregel_nodes_data, stop_reason, backend, result, args, num_nodes>>

AddVertexCol ==
    /\ pc = "config"
    /\ \E c \in VertexColCalls : Call(c)
RemoveVertexCol ==
    /\ pc = "config"
    /\ \E c \in RemoveColCalls : Call(c)
AddMessageToSrc ==
    /\ pc = "config"
    /\ Len(self.messages) < MaxMessages
    /\ \E c \in MessageToSrcCalls : Call(c)
AddMessageToDst ==
    /\ pc = "config"
    /\ Len(self.messages) < MaxMessages
    /\ \E c \in MessageToDstCalls : Call(c)
SetHasActiveFlag ==
    /\ pc = "config"
    /\ \E c \in HasActiveFlagCalls : Call(c)
SetInitialActiveFlag ==
    /\ pc = "config"
    /\ \E c \in InitialActiveFlagCalls : Call(c)
SetAggExpressionFunc ==
    /\ pc = "config"
    /\ \E c \in AggCalls : Call(c)
SetEarlyStopping ==
    /\ pc = "config"
    /\ \E c \in EarlyStoppingCalls : Call(c)
SetMaxIter ==
    /\ pc = "config"
    /\ \E c \in MaxIterCalls : Call(c)
SetCheckpointInterval ==
    /\ pc = "config"
    /\ \E c \in CheckpointCalls : Call(c)
SetActiveFlagUpdCol ==
    /\ pc = "config"
    /\ \E c \in ActiveFlagUpdCalls : Call(c)
SetFilterMessagesFromNonActive ==
    /\ pc = "config"
    /\ \E c \in FilterCalls : Call(c)
SetStopIfAllUnactive ==
    /\ pc = "config"
    /\ \E c \in StopIfAllUnactiveCalls : Call(c)

\* a run() that takes the declared messages off the builder
RunStartConsumingMessages ==
    /\ pc \in {"config", "rejected", "returned", "raised"}
    /\ SetLocals(Start(self, graph))
    /\ self' = [self EXCEPT !.messages = <<>>]
    /\ UNCHANGED <<graph, args, num_nodes>>

\* run() is called: validation and the code before the loop
RunStart ==
    /\ pc \in {"config", "rejected", "returned", "raised"}
    /\ SetLocals(Start(self, graph))
    /\ UNCHANGED <<graph, self, args, num_nodes>>

\* one iteration of the loop of run(), to its end or to the break or the
\* exception that leaves it
RunSuperstep ==
    /\ pc = "running"
    /\ LoopCondition(self, Locals)
    /\ SetLocals(Superstep(self, graph, Locals))
    /\ UNCHANGED <<graph, self, args, num_nodes>>

\* the loop condition is false: run() returns
RunLoopExit ==
    /\ pc = "running"
    /\ ~LoopCondition(self, Locals)
    /\ SetLocals(LoopExit(self, Locals))
    /\ UNCHANGED <<graph, self, args, num_nodes>>

Next ==
    \/ AddVertexCol
    \/ RemoveVertexCol
    \/ AddMessageToSrc
    \/ AddMessageToDst
    \/ SetHasActiveFlag
    \/ SetInitialActiveFlag
    \/ SetAggExpressionFunc
    \/ SetEarlyStopping
    \/ SetMaxIter
    \/ SetCheckpointInterval
    \/ SetActiveFlagUpdCol
    \/ SetFilterMessagesFromNonActive
    \/ SetStopIfAllUnactive
    \/ RunStart
    \/ RunSuperstep
    \/ RunLoopExit

Spec == Init /\ [][Next]_vars

-----------------------------------------------------------------------------
(* Properties *)

\* the relation run() returns for the state: line 427-430
WithoutActiveFlag(s, state) ==
    IF s.has_active_flag THEN Drop(state, ACTIVE_VERTEX_FLAG) ELSE state

\* every expression of the configuration reads only columns State(t) has
ExpressionsResolve(s, g) ==
    LET cols == Range(StateColumns(s, g)) IN
    /\ \A k \in DOMAIN s.messages : MessageRefs(s.messages[k].msg_expr) \subseteq cols
    /\ \A k \in DOMAIN s.vertex_cols : UpdateRefs(s.vertex_cols[k].update_expr) \subseteq cols
    /\ s.active_flag_upd_expr # "None" => UpdateRefs(s.active_flag_upd_expr) \subseteq cols

\* C1: run() executes at most max_iter supersteps: the number of passes
\* through the loop body never exceeds the configured max_iter, in every
\* configuration and on every graph.
C1_AtMostMaxIterSupersteps ==
    pc \in {"running", "returned", "raised"} => it <= self.max_iter

\* a run that was cut by max_iter = 2 with early stopping off on a graph that
\* has vertices
C1_Witness ==
    /\ pc = "returned"
    /\ stop_reason = "max_iter"
    /\ self.max_iter = 2
    /\ it = 2
    /\ ~self.do_early_stopping
    /\ Len(graph.nodes.rows) > 0

\* the state a superstep builds from state: the update expressions applied
\* to state left-joined with the aggregated messages
Updated(s, g, state) ==
    ApplyUpdates(s, g, LeftJoin(state, GroupByAgg(NewMessages(s, g, state),
                                                  s.agg_expression_func)))

\* C2: with early stopping on, a superstep that produces no non-null message
\* returns at once: State(t) is left as it was, it is what run() returns
\* (without _active_flag), and the only materialization is the count probe;
\* a superstep that produces a message does not stop for lack of messages and
\* replaces State(t) by the updated state.
C2_EarlyStopping ==
    [][(/\ pc = "running"
        /\ it' = it + 1
        /\ self.do_early_stopping
        /\ MessagePlanError(self, pregel_nodes_data) = "None")
       => IF Len(NewMessages(self, graph, pregel_nodes_data).rows) = 0
          THEN /\ pc' = "returned"
               /\ stop_reason' = "no_messages"
               /\ pregel_nodes_data' = pregel_nodes_data
               /\ result' = WithoutActiveFlag(self, pregel_nodes_data)
               /\ backend' = Append(backend, Materialize("count", it'))
          ELSE /\ stop_reason' # "no_messages"
               /\ ExpressionsResolve(self, graph)
                    => pregel_nodes_data' = Updated(self, graph, pregel_nodes_data)
      ]_vars

\* the messages dried up in the third superstep of a run with the active
\* flag: two supersteps were carried out, the third returned State(2)
C2_Witness ==
    /\ pc = "returned"
    /\ stop_reason = "no_messages"
    /\ it = 3
    /\ self.has_active_flag
    /\ \E r \in Range(result.rows) : r[ID] = 4 /\ r["value"] = 1

\* no message declaration emits a non-null message on any edge of State(0)
NoDeclarationEmits(s, g) ==
    /\ Validate(s) = "None"
    /\ \A k \in DOMAIN s.messages :
            MessageRefs(s.messages[k].msg_expr) \subseteq Range(StateColumns(s, g))
    /\ Len(NewMessages([s EXCEPT !.filter_messages_from_non_active = FALSE],
                       g, InitialState(s, g)).rows) = 0

\* State(0) with every update expression applied to a null message
UpdatedWithNullMessages(s, g) ==
    ApplyUpdates(s, g, LeftJoin(InitialState(s, g),
                                [columns |-> <<ID, MSG_COL_NAME>>, rows |-> <<>>]))

\* C3 as stated: if no declaration emits a message and early stopping is on,
\* run() returns after one superstep with the update expressions applied to
\* State(0) and null messages.
C3_ReturnsUpdatedState ==
    (/\ pc = "returned"
     /\ self.do_early_stopping
     /\ NoDeclarationEmits(self, graph)
     /\ ExpressionsResolve(self, graph))
    => /\ it = 1
       /\ result = WithoutActiveFlag(self, UpdatedWithNullMessages(self, graph))

\* C3 amended: if no declaration emits a message and early stopping is on,
\* run() returns in its first superstep, for lack of messages, and returns
\* State(0) itself: the initial expressions, no update applied.
C3_ReturnsInitialState ==
    (/\ pc = "returned"
     /\ self.do_early_stopping
     /\ NoDeclarationEmits(self, graph))
    => /\ it = 1
       /\ stop_reason = "no_messages"
       /\ result = WithoutActiveFlag(self, InitialState(self, graph))

\* such a run on a graph where the update would have changed State(0)
C3_Witness ==
    /\ pc = "returned"
    /\ self.do_early_stopping
    /\ NoDeclarationEmits(self, graph)
    /\ ExpressionsResolve(self, graph)
    /\ result # WithoutActiveFlag(self, UpdatedWithNullMessages(self, graph))
    /\ \E r \in Range(result.rows) : r["value"] = 1

\* every vertex of state is inactive
AllFlagsFalse(state) ==
    \A r \in Range(state.rows) : ~r[ACTIVE_VERTEX_FLAG]

\* C4: with stop_if_all_unactive and the active flag enabled, a superstep
\* that builds an updated state makes run() stop for the reason all_inactive
\* exactly when every vertex of the updated state has _active_flag = false,
\* and run() then returns that updated state.
C4_StopsWhenAllInactive ==
    [][(/\ pc = "running"
        /\ it' = it + 1
        /\ self.stop_if_all_non_active
        /\ self.has_active_flag
        /\ pc' # "raised"
        /\ stop_reason' # "no_messages")
       => /\ AllFlagsFalse(pregel_nodes_data')
                <=> (pc' = "returned" /\ stop_reason' = "all_inactive")
          /\ pc' = "returned"
                => result' = WithoutActiveFlag(self, pregel_nodes_data')
      ]_vars

\* table has one row for each vertex of g and no other row
EachVertexOnce(g, table) ==
    /\ Len(table.rows) = Len(g.nodes.rows)
    /\ \A v \in Range(g.nodes.rows) :
            Cardinality({k \in DOMAIN table.rows : table.rows[k][ID] = v[ID]}) = 1

\* C5: every State(t) run() builds, and the relation it returns, holds each
\* vertex id of the graph exactly once, so the returned row count is
\* num_nodes, whether a vertex got no message or several in a superstep and
\* whatever the exit path is.
C5_EachVertexOnce ==
    /\ pc \in {"running", "returned"} => EachVertexOnce(graph, pregel_nodes_data)
    /\ pc = "returned" => EachVertexOnce(graph, result)

\* State(1) of a run in which vertex 3 was the target of two messages and
\* vertex 5 of none
C5_Witness ==
    /\ pc = "running"
    /\ it = 1
    /\ Len(graph.nodes.rows) = 5
    /\ MessagePlanError(self, InitialState(self, graph)) = "None"
    /\ LET sent == NewMessages(self, graph, InitialState(self, graph)).rows
       IN  /\ Cardinality({k \in DOMAIN sent : sent[k][ID] = 3}) >= 2
           /\ \A k \in DOMAIN sent : sent[k][ID] # 5

\* C6: on every exit path, with or without the active flag, the returned
\* relation has exactly the original vertex columns and the declared vertex
\* columns, each once, and neither _active_flag nor _pregel_msg; every row
\* has exactly these fields.
C6_ReturnedColumns ==
    pc = "returned" =>
        /\ Range(result.columns)
              = Range(graph.nodes.columns) \cup Range(ColNames(self.vertex_cols))
        /\ Len(result.columns)
              = Len(graph.nodes.columns) + Len(self.vertex_cols)
        /\ ACTIVE_VERTEX_FLAG \notin Range(result.columns)
        /\ MSG_COL_NAME \notin Range(result.columns)
        /\ \A r \in Range(result.rows) : DOMAIN r = Range(result.columns)

\* a run whose state carries _active_flag and that stopped because every
\* vertex was inactive
C6_Witness ==
    /\ pc = "returned"
    /\ stop_reason = "all_inactive"
    /\ self.has_active_flag
    /\ ACTIVE_VERTEX_FLAG \in Range(pregel_nodes_data.columns)
    /\ Len(result.rows) = 5

\* C7: for any two non-negative checkpoint intervals and the same remaining
\* configuration and graph, run() executes the same number of supersteps,
\* ends the same way and for the same reason, and returns relations with
\* equal contents: every finished run, whatever its interval, is equal in
\* all of these to the runs of the same builder without checkpoints and with
\* the interval MaxInterval, so the runs under any two intervals are equal
\* to each other.
C7_CheckpointIntervalIrrelevant ==
    pc \in {"returned", "raised"} =>
        \A c \in {0, MaxInterval} :
            LET other == run([self EXCEPT !.checkpoint_interval = c], graph)
            IN  /\ other.pc = pc
                /\ other.raised = raised
                /\ other.it = it
                /\ other.stop_reason = stop_reason
                /\ other.result = result

\* a run of three supersteps with interval 2, which materialized State(2),
\* where the run without checkpoints asks the backend for less
C7_Witness ==
    /\ pc = "returned"
    /\ self.checkpoint_interval = 2
    /\ it >= 3
    /\ Materialize("cache", 2) \in Range(backend)
    /\ run([self EXCEPT !.checkpoint_interval = 0], graph).backend # backend
    /\ \E r \in Range(result.rows) : r[ID] > 1 /\ r["value"] = 1

\* C8: a finished run() has failed exactly when no aggregator is set, or no
\* message is declared, or no vertex column is declared, and then it failed
\* before building a state, running a superstep or asking the backend for
\* anything; in every other configuration (whose expressions read existing
\* columns) a relation is returned.
C8_FailsExactlyOnValidation ==
    (pc \in {"returned", "raised"} /\ ExpressionsResolve(self, graph)) =>
        IF \/ self.agg_expression_func = "None"
           \/ Len(self.messages) = 0
           \/ Len(self.vertex_cols) = 0
        THEN /\ pc = "raised"
             /\ it = 0
             /\ backend = <<>>
             /\ pregel_nodes_data = NoTable
             /\ result = NoTable
        ELSE pc = "returned"

\* what a range-checked setter does with value: it raises and leaves the
\* builder alone, or stores value in field
RangeChecked(s, field, value, rejected) ==
    IF rejected
    THEN [self |-> s, raised |-> "ValueError"]
    ELSE [self |-> [s EXCEPT ![field] = value], raised |-> "None"]

\* C9: set_max_iter(v) raises ValueError exactly when v <= 0 and
\* set_checkpoint_interval(v) exactly when v < 0; a rejected call leaves the
\* whole configuration as it was and an accepted call stores v, so after any
\* sequence of setter calls max_iter >= 1 and checkpoint_interval >= 0.
C9_RangeChecks ==
    /\ [](/\ self.max_iter >= 1
          /\ self.checkpoint_interval >= 0
          /\ \A c \in MaxIterCalls :
                Invoke(self, c) = RangeChecked(self, "max_iter", c.value, c.value <= 0)
          /\ \A c \in CheckpointCalls :
                Invoke(self, c)
                    = RangeChecked(self, "checkpoint_interval", c.value, c.value < 0))
    /\ [][/\ (pc = "config" /\ pc' = "rejected")
                => (self' = self /\ raised' = "ValueError")
          /\ (pc = "config" /\ pc' = "config") => raised' = "None"]_vars

\* a call was rejected on a builder whose max_iter and checkpoint_interval
\* had been set before: both settings are still there
C9_Witness ==
    /\ pc = "rejected"
    /\ raised = "ValueError"
    /\ self.max_iter = 2
    /\ self.checkpoint_interval = 0

\* the settings a setter call assigns; the entries of the dict _vertex_cols
\* are settings of their own
Writes(c) ==
    CASE c.name \in {"add_vertex_col", "remove_vertex_col"} -> {<<"vertex_cols", c.col_name>>}
      [] c.name \in {"add_message_to_src", "add_message_to_dst"} -> {<<"messages", "">>}
      [] c.name = "set_has_active_flag" -> {<<"has_active_flag", "">>}
      [] c.name = "set_initial_active_flag" ->
            {<<"has_active_flag", "">>, <<"initial_active_flag", "">>}
      [] c.name = "set_agg_expression_func" -> {<<"agg_expression_func", "">>}
      [] c.name = "set_early_stopping" -> {<<"do_early_stopping", "">>}
      [] c.name = "set_max_iter" -> {<<"max_iter", "">>}
      [] c.name = "set_checkpoint_interval" -> {<<"checkpoint_interval", "">>}
      [] c.name = "set_active_flag_upd_col" -> {<<"active_flag_upd_expr", "">>}
      [] c.name = "set_filter_messages_from_non_active" ->
            {<<"filter_messages_from_non_active", "">>}
      [] c.name = "set_stop_if_all_unactive" -> {<<"stop_if_all_non_active", "">>}

\* the same configuration: the same settings, the same messages in the same
\* order and the same vertex columns, in whatever order the dict holds them
SameConfiguration(a, b) ==
    /\ [a EXCEPT !.vertex_cols = <<>>] = [b EXCEPT !.vertex_cols = <<>>]
    /\ Range(a.vertex_cols) = Range(b.vertex_cols)
    /\ Len(a.vertex_cols) = Len(b.vertex_cols)

\* two finished runs with equal contents: the same end, the same columns in
\* whatever order, the same rows
SameContents(r1, r2) ==
    /\ r1.pc = r2.pc
    /\ r1.raised = r2.raised
    /\ r1.it = r2.it
    /\ r1.stop_reason = r2.stop_reason
    /\ Range(r1.result.columns) = Range(r2.result.columns)
    /\ r1.result.rows = r2.result.rows

\* the builder after the calls c1, c2 in this order
After(s, c1, c2) == Invoke(Invoke(s, c1).self, c2).self

\* C10 as stated: the builder is order-independent: on every builder, two
\* calls of different setters give the same configuration in either order.
C10_OrderIndependent ==
    pc = "config" =>
        \A c1, c2 \in SetterCalls :
            c1.name # c2.name =>
                SameConfiguration(After(self, c1, c2), After(self, c2, c1))

\* C10 amended: every setter returns the builder unless its range check
\* raises, and two calls that assign different settings commute: in either
\* order they give the same configuration and run() the same contents.
\* set_initial_active_flag assigns has_active_flag too, and add_vertex_col
\* and remove_vertex_col of one name assign the same entry.  Checked on
\* every builder that holds at most CommuteDepth settings.
C10_DisjointCallsCommute ==
    (pc = "config" /\ Settings(self) <= CommuteDepth) =>
        /\ \A c \in SetterCalls \ (MaxIterCalls \cup CheckpointCalls) :
                Invoke(self, c).raised = "None"
        /\ \A c1, c2 \in SetterCalls :
                Writes(c1) \cap Writes(c2) = {} =>
                    LET a == After(self, c1, c2)
                        b == After(self, c2, c1)
                    IN  /\ SameConfiguration(a, b)
                        /\ a # b => SameContents(run(a, graph), run(b, graph))

\* a builder with an aggregator and a message, on which declaring two
\* vertex columns in the two orders gives two different dicts, and run()
\* returns the same contents for both
C10_Witness ==
    /\ pc = "config"
    /\ Settings(self) <= CommuteDepth
    /\ self.agg_expression_func # "None"
    /\ Len(self.messages) = 1
    /\ Len(graph.nodes.rows) = 5
    /\ \E c1, c2 \in VertexColCalls :
            /\ Writes(c1) \cap Writes(c2) = {}
            /\ After(self, c1, c2) # After(self, c2, c1)
            /\ run(After(self, c1, c2), graph).pc = "returned"
            /\ run(After(self, c1, c2), graph).result.columns
                    # run(After(self, c2, c1), graph).result.columns

\* the builder still has the probe settings of a fresh Pregel; the calls of
\* set_early_stopping and set_stop_if_all_unactive explored here all change
\* them, so this says that neither setter was called
ProbeSettersNeverCalled(s) ==
    /\ s.do_early_stopping = NewPregel.do_early_stopping
    /\ s.stop_if_all_non_active = NewPregel.stop_if_all_non_active

\* C11: the probes are opt-in: while neither set_early_stopping nor
\* set_stop_if_all_unactive was called, run() asks the backend neither for
\* the count of the messages nor for the distinct values of _active_flag.
C11_ProbesOptIn ==
    ProbeSettersNeverCalled(self) =>
        \A k \in DOMAIN backend : backend[k].op \notin {"count", "distinct"}

-----------------------------------------------------------------------------
(* test_chain: the builder of the test on the chain graphs *)

\* the Pregel test_chain configures before it calls run()
TestChainPregel ==
    LET col == add_vertex_col(NewPregel, "value", "id_is_1", "max_msg_value").self
        msg == add_message_to_dst(col, "src_value_if_dst_le").self
    IN  set_agg_expression_func(msg, "max").self

ChainInit ==
    /\ graph \in {ChainGraph(n) : n \in 0..MaxChain}
    /\ self = TestChainPregel
    /\ pc = NoRun.pc
    /\ raised = NoRun.raised
    /\ it = NoRun.it
    /\ pregel_nodes_data = NoRun.pregel_nodes_data
    /\ stop_reason = NoRun.stop_reason
    /\ backend = NoRun.backend
    /\ result = NoRun.result
    /\ args = NoArgs
    /\ num_nodes = Null

ChainNext ==
    \/ SetEarlyStopping
    \/ SetMaxIter
    \/ SetCheckpointInterval
    \/ RunStart
    \/ RunSuperstep
    \/ RunLoopExit

ChainSpec == ChainInit /\ [][ChainNext]_vars

\* the supersteps the run has completed: the one that found no message was
\* left before its update
CompletedSupersteps ==
    IF stop_reason = "no_messages" THEN it - 1 ELSE it

\* value is 1 at the vertices with an id up to last and 0 at the others
OnesUpTo(table, last) ==
    \A r \in Range(table.rows) : r["value"] = IF r[ID] <= last THEN 1 ELSE 0

\* C12: on the chain 1..n with the configuration of test_chain, the state
\* after k supersteps has value = 1 exactly at the vertices with id <= k + 1,
\* and on the chain of 5 vertices the default configuration returns value = 1
\* for every vertex.
C12_ChainPropagation ==
    /\ pc \in {"running", "returned"}
            => OnesUpTo(pregel_nodes_data, CompletedSupersteps + 1)
    /\ (pc = "returned" /\ self = TestChainPregel /\ Len(graph.nodes.rows) = 5)
            => /\ Len(result.rows) = 5
               /\ \A r \in Range(result.rows) : r["value"] = 1

\* the run of test_chain has returned
C12_Witness ==
    /\ pc = "returned"
    /\ self = TestChainPregel
    /\ Len(graph.nodes.rows) = 5
    /\ it = 10
    /\ \A r \in Range(result.rows) : r["value"] = 1

\* the vertices the messages of the superstep on state are addressed to
Receivers(s, g, state) ==
    {m[ID] : m \in Range(NewMessages(s, g, state).rows)}

\* C13: with the active flag on and no custom update of it, State(0) has
\* every vertex active unless an initial expression was set, and after every
\* completed superstep a vertex is active if and only if a non-null message
\* was addressed to it in that superstep, whatever its flag was before.
C13_ActiveIffReceived ==
    [][/\ (/\ pc' = "running"
           /\ it' = 0
           /\ self.has_active_flag
           /\ self.initial_active_flag = NewPregel.initial_active_flag)
          => \A r \in Range(pregel_nodes_data'.rows) : r[ACTIVE_VERTEX_FLAG]
       /\ (/\ pc = "running"
           /\ it' = it + 1
           /\ self.has_active_flag
           /\ self.active_flag_upd_expr = "None"
           /\ pc' # "raised"
           /\ stop_reason' # "no_messages")
          => \A r \in Range(pregel_nodes_data'.rows) :
                r[ACTIVE_VERTEX_FLAG]
                    <=> r[ID] \in Receivers(self, graph, pregel_nodes_data)
      ]_vars

\* State(1) of a run in which vertex 3, inactive in State(0), got a message
\* and vertex 1, active in State(0), got none
C13_Witness ==
    /\ pc = "running"
    /\ it = 1
    /\ self.has_active_flag
    /\ self.active_flag_upd_expr = "None"
    /\ self.initial_active_flag = "id_is_1"
    /\ \E r \in Range(pregel_nodes_data.rows) : r[ID] = 3 /\ r[ACTIVE_VERTEX_FLAG]
    /\ \E r \in Range(pregel_nodes_data.rows) : r[ID] = 1 /\ ~r[ACTIVE_VERTEX_FLAG]

-----------------------------------------------------------------------------
(* Runs with the active flag on a graph of two components *)

\* two components with an edge each: 1 -> 2 and 3 -> 4
TwoComponentGraph ==
    [nodes |-> [columns |-> <<ID>>,
                rows |-> [i \in 1..4 |-> [id_ |-> i]]],
     edges |-> [columns |-> <<SRC, DST>>,
                rows |-> <<[src_ |-> 1, dst_ |-> 2], [src_ |-> 3, dst_ |-> 4]>>]]

\* a builder with one vertex column, the aggregator and the active flag
ActiveFlagPregel ==
    LET col == add_vertex_col(NewPregel, "value", "id_is_1", "max_msg_value").self
        agg == set_agg_expression_func(col, "max").self
    IN  set_has_active_flag(agg, TRUE).self

ActiveInit ==
    /\ graph \in {TwoComponentGraph, ChainGraph(MaxChain - 2)}
    /\ self = ActiveFlagPregel
    /\ pc = NoRun.pc
    /\ raised = NoRun.raised
    /\ it = NoRun.it
    /\ pregel_nodes_data = NoRun.pregel_nodes_data
    /\ stop_reason = NoRun.stop_reason
    /\ backend = NoRun.backend
    /\ result = NoRun.result
    /\ args = NoArgs
    /\ num_nodes = Null

ActiveNext ==
    \/ AddMessageToSrc
    \/ AddMessageToDst
    \/ SetInitialActiveFlag
    \/ SetActiveFlagUpdCol
    \/ SetFilterMessagesFromNonActive
    \/ SetStopIfAllUnactive
    \/ SetEarlyStopping
    \/ SetMaxIter
    \/ RunStart
    \/ RunSuperstep
    \/ RunLoopExit

ActiveSpec == ActiveInit /\ [][ActiveNext]_vars

\* the vertices an edge of g links to a vertex of S, in either direction
Neighbours(g, S) ==
    {e[DST] : e \in {x \in Range(g.edges.rows) : x[SRC] \in S}}
        \cup {e[SRC] : e \in {x \in Range(g.edges.rows) : x[DST] \in S}}

\* the connected component of g that holds the vertices S
RECURSIVE Component(_, _)
Component(g, S) ==
    IF Neighbours(g, S) \subseteq S THEN S ELSE Component(g, S \cup Neighbours(g, S))

\* the vertices of state whose _active_flag is true
ActiveVertices(state) ==
    {r[ID] : r \in {x \in Range(state.rows) : x[ACTIVE_VERTEX_FLAG]}}

\* C14: with the filter on and the default update of the active flag, a
\* component whose vertices are all inactive in State(t) gets no message in
\* superstep t and is all inactive in State(t+1), hence in every later
\* state, whatever happens in the other components.
C14_DeadComponentStaysDead ==
    [][(/\ pc = "running"
        /\ it' = it + 1
        /\ self.filter_messages_from_non_active
        /\ self.has_active_flag
        /\ self.active_flag_upd_expr = "None"
        /\ pc' # "raised"
        /\ stop_reason' # "no_messages")
       => \A v \in {r[ID] : r \in Range(graph.nodes.rows)} :
            Component(graph, {v}) \cap ActiveVertices(pregel_nodes_data) = {}
                => /\ Component(graph, {v}) \cap ActiveVertices(pregel_nodes_data') = {}
                   /\ Component(graph, {v})
                        \cap Receivers(self, graph, pregel_nodes_data) = {}
      ]_vars

\* State(1) of a run where the component of 3 and 4 was dead from the start
\* and is still dead, vertex 2 is active, and without the filter the edge
\* 3 -> 4 would have carried a message
C14_Witness ==
    /\ pc = "running"
    /\ it = 1
    /\ graph = TwoComponentGraph
    /\ self.filter_messages_from_non_active
    /\ self.active_flag_upd_expr = "None"
    /\ ActiveVertices(InitialState(self, graph)) = {1}
    /\ ActiveVertices(pregel_nodes_data) = {2}
    /\ 4 \in Receivers([self EXCEPT !.filter_messages_from_non_active = FALSE],
                       graph, InitialState(self, graph))

-----------------------------------------------------------------------------
(* IbisGraph: the constructor and num_nodes.  The relations handed to the     *)
(* constructor carry their schema: types maps a column to its data type.      *)

Table(columns, types, rows) == [columns |-> columns, types |-> types, rows |-> rows]

\* a type check that lets every type through
is_integer_or_not(type) == TRUE

\* DataType.is_integer()
is_integer(type) == type \in {"int8", "int16", "int32", "int64"}

\* table.rename({new: old}): ibis raises when old is not a column of table
\* or when the new name is already the name of another column
RenameFails(table, new, old) ==
    \/ old \notin Range(table.columns)
    \/ (new # old /\ new \in Range(table.columns))

Rename(table, new, old) ==
    LET was(c) == IF c = new THEN old ELSE c
        columns == [k \in DOMAIN table.columns |->
                        IF table.columns[k] = old THEN new ELSE table.columns[k]]
    IN  [columns |-> columns,
         types |-> [c \in Range(columns) |-> table.types[was(c)]],
         rows |-> [k \in DOMAIN table.rows |->
                        [c \in Range(columns) |-> table.rows[k][was(c)]]]]

NoGraph == [nodes |-> NoTable, edges |-> NoTable]

Constructed(g) == [graph |-> g, raised |-> "None"]
ConstructionRaised(exc) == [graph |-> NoGraph, raised |-> exc]

\* IbisGraph.__init__; a.weight_col is "None" when no weight column is named
IbisGraph(a) ==
    IF a.id_col \notin Range(a.nodes.columns) THEN ConstructionRaised("ValueError")
    ELSE IF ~is_integer(a.nodes.types[a.id_col]) THEN ConstructionRaised("ValueError")
    ELSE IF a.src_col \notin Range(a.edges.columns) THEN ConstructionRaised("ValueError")
    ELSE IF a.dst_col \notin Range(a.edges.columns) THEN ConstructionRaised("ValueError")
    ELSE IF ~is_integer(a.edges.types[a.src_col]) THEN ConstructionRaised("ValueError")
    ELSE IF ~is_integer(a.edges.types[a.dst_col]) THEN ConstructionRaised("ValueError")
    ELSE IF RenameFails(a.nodes, ID, a.id_col) THEN ConstructionRaised("IbisError")
    ELSE IF \/ RenameFails(a.edges, SRC, a.src_col)
            \/ RenameFails(Rename(a.edges, SRC, a.src_col), DST, a.dst_col)
         THEN ConstructionRaised("IbisError")
    ELSE LET nodes == Rename(a.nodes, ID, a.id_col)
             edges == Rename(Rename(a.edges, SRC, a.src_col), DST, a.dst_col)
         IN  IF a.weight_col = "None"
             THEN Constructed([nodes |-> nodes, edges |-> edges,
                               is_weighted |-> FALSE, directed |-> a.directed])
             ELSE IF RenameFails(edges, WEIGHT, a.weight_col)
             THEN ConstructionRaised("IbisError")
             ELSE Constructed([nodes |-> nodes,
                               edges |-> Rename(edges, WEIGHT, a.weight_col),
                               is_weighted |-> TRUE, directed |-> a.directed])

\* IbisGraph.num_nodes: the row count of the vertex relation
NumNodes(g) == Len(g.nodes.rows)

\* the arguments of a constructor call
Args(nodes, edges, directed, id_col, src_col, dst_col, weight_col) ==
    [nodes |-> nodes, edges |-> edges, directed |-> directed, id_col |-> id_col,
     src_col |-> src_col, dst_col |-> dst_col, weight_col |-> weight_col]

\* the edges of the karate_club fixture
KarateClubEdges ==
    <<<<2, 1>>, <<3, 1>>, <<3, 2>>, <<4, 1>>, <<4, 2>>, <<4, 3>>,
      <<5, 1>>, <<6, 1>>, <<7, 1>>, <<7, 5>>, <<7, 6>>, <<8, 1>>,
      <<8, 2>>, <<8, 3>>, <<8, 4>>, <<9, 1>>, <<9, 3>>, <<10, 3>>,
      <<11, 1>>, <<11, 5>>, <<11, 6>>, <<12, 1>>, <<13, 1>>, <<13, 4>>,
      <<14, 1>>, <<14, 2>>, <<14, 3>>, <<14, 4>>, <<17, 6>>, <<17, 7>>,
      <<18, 1>>, <<18, 2>>, <<20, 1>>, <<20, 2>>, <<22, 1>>, <<22, 2>>,
      <<26, 24>>, <<26, 25>>, <<28, 3>>, <<28, 24>>, <<28, 25>>, <<29, 3>>,
      <<30, 24>>, <<30, 27>>, <<31, 2>>, <<31, 9>>, <<32, 1>>, <<32, 25>>,
      <<32, 26>>, <<32, 29>>, <<33, 3>>, <<33, 9>>, <<33, 15>>, <<33, 16>>,
      <<33, 19>>, <<33, 21>>, <<33, 23>>, <<33, 24>>, <<33, 30>>, <<33, 31>>,
      <<33, 32>>, <<34, 9>>, <<34, 10>>, <<34, 14>>, <<34, 15>>, <<34, 16>>,
      <<34, 19>>, <<34, 20>>, <<34, 21>>, <<34, 23>>, <<34, 24>>, <<34, 27>>,
      <<34, 28>>, <<34, 29>>, <<34, 30>>, <<34, 31>>, <<34, 32>>, <<34, 33>>>>

\* the call of the karate_club fixture: IbisGraph(nodes, edges)
KarateClubArgs ==
    Args(Table(<<"id">>, [c \in {"id"} |-> "int64"],
               [i \in 1..34 |-> [id |-> i]]),
         Table(<<"src", "dst">>, [c \in {"src", "dst"} |-> "int64"],
               [k \in DOMAIN KarateClubEdges |->
                    [src |-> KarateClubEdges[k][1], dst |-> KarateClubEdges[k][2]]]),
         FALSE, "id", "src", "dst", "None")

\* vertex relations handed to the constructor, two rows each; the data type
\* of a column is in types, its values are written as numbers throughout
NodeTables ==
    {Table(<<"id", "name">>, [c \in {"id", "name"} |-> IF c = "id" THEN "int64" ELSE "string"],
           <<[id |-> 1, name |-> 10], [id |-> 2, name |-> 20]>>),
     Table(<<"id", "name">>, [c \in {"id", "name"} |-> "string"],
           <<[id |-> 1, name |-> 10], [id |-> 2, name |-> 20]>>),
     Table(<<"key", "name">>, [c \in {"key", "name"} |-> IF c = "key" THEN "int32" ELSE "string"],
           <<[key |-> 1, name |-> 10], [key |-> 2, name |-> 20]>>),
     Table(<<"id", "id_">>, [c \in {"id", "id_"} |-> "int64"],
           <<[id |-> 1, id_ |-> 7], [id |-> 2, id_ |-> 8]>>)}

\* edge relations handed to the constructor
EdgeTables ==
    {Table(<<"src", "dst">>, [c \in {"src", "dst"} |-> "int64"],
           <<[src |-> 1, dst |-> 2], [src |-> 2, dst |-> 1]>>),
     Table(<<"src", "dst", "w">>,
           [c \in {"src", "dst", "w"} |-> IF c = "w" THEN "float64" ELSE "int64"],
           <<[src |-> 1, dst |-> 2, w |-> 5], [src |-> 2, dst |-> 1, w |-> 7]>>),
     Table(<<"src", "dst">>, [c \in {"src", "dst"} |-> IF c = "dst" THEN "string" ELSE "int64"],
           <<[src |-> 1, dst |-> 2], [src |-> 2, dst |-> 1]>>),
     Table(<<"src", "dst">>, [c \in {"src", "dst"} |-> IF c = "src" THEN "string" ELSE "int64"],
           <<[src |-> 1, dst |-> 2], [src |-> 2, dst |-> 1]>>),
     Table(<<"from", "dst", "w">>,
           [c \in {"from", "dst", "w"} |-> IF c = "w" THEN "float64" ELSE "int64"],
           <<[from |-> 1, dst |-> 2, w |-> 5], [from |-> 2, dst |-> 1, w |-> 7]>>)}

ConstructorCalls ==
    {Args(n, e, d, id_col, src_col, dst_col, weight_col) :
        n \in NodeTables, e \in EdgeTables, d \in BOOLEAN,
        id_col \in {"id", "key"}, src_col \in {"src", "from"},
        dst_col \in {"dst", "to"}, weight_col \in {"None", "w"}}
    \cup {KarateClubArgs}

GraphInit ==
    /\ args \in ConstructorCalls
    /\ graph = NoGraph
    /\ self = NewPregel
    /\ pc = "construct"
    /\ raised = NoRun.raised
    /\ it = NoRun.it
    /\ pregel_nodes_data = NoRun.pregel_nodes_data
    /\ stop_reason = NoRun.stop_reason
    /\ backend = NoRun.backend
    /\ result = NoRun.result
    /\ num_nodes = Null

\* IbisGraph(...) is called
Construct ==
    /\ pc = "construct"
    /\ graph' = IbisGraph(args).graph
    /\ raised' = IbisGraph(args).raised
    /\ pc' = IF IbisGraph(args).raised = "None" THEN "constructed" ELSE "not_constructed"
    /\ UNCHANGED <<self, it, pregel_nodes_data, stop_reason, backend, result, args, num_nodes>>

\* graph.num_nodes is read: int(self._nodes.count().to_pandas())
ReadNumNodes ==
    /\ pc = "constructed"
    /\ num_nodes = Null
    /\ num_nodes' = <<NumNodes(graph)>>
    /\ backend' = Append(backend, Materialize("count", 0))
    /\ UNCHANGED <<graph, self, pc, raised, it, pregel_nodes_data, stop_reason, result, args>>

GraphNext ==
    \/ Construct
    \/ ReadNumNodes

GraphSpec == GraphInit /\ [][GraphNext]_vars

\* a nominated column is missing from its relation or is not integer-typed
MissingOrNotInteger(table, col) ==
    col \notin Range(table.columns) \/ ~(table.types[col] \in {"int8", "int16", "int32", "int64"})

\* the id, the source or the destination column is missing or not an integer
BadIdColumns(a) ==
    \/ MissingOrNotInteger(a.nodes, a.id_col)
    \/ MissingOrNotInteger(a.edges, a.src_col)
    \/ MissingOrNotInteger(a.edges, a.dst_col)

\* exposed is given with the columns named by canonical (a function from
\* the nominated names), every other column and every row being as they are
Exposes(exposed, given, canonical) ==
    LET name(c) == IF c \in DOMAIN canonical THEN canonical[c] ELSE c IN
    /\ exposed.columns = [k \in DOMAIN given.columns |-> name(given.columns[k])]
    /\ Len(exposed.rows) = Len(given.rows)
    /\ \A k \in DOMAIN given.rows :
            /\ DOMAIN exposed.rows[k] = {name(c) : c \in Range(given.columns)}
            /\ \A c \in Range(given.columns) :
                    exposed.rows[k][name(c)] = given.rows[k][c]

\* the graph exposes the relations of the call under the canonical names
ExposesCanonical(g, a) ==
    /\ Exposes(g.nodes, a.nodes, (a.id_col :> ID))
    /\ Exposes(g.edges, a.edges,
               IF a.weight_col = "None"
               THEN (a.src_col :> SRC) @@ (a.dst_col :> DST)
               ELSE (a.src_col :> SRC) @@ (a.dst_col :> DST) @@ (a.weight_col :> WEIGHT))
    /\ g.is_weighted = (a.weight_col # "None")

\* C15 as stated: construction fails, producing no graph, exactly when the
\* id, source or destination column is missing or not integer-typed, and
\* otherwise succeeds and exposes the relations under the canonical names.
C15_FailsOnlyOnIdColumns ==
    pc \in {"constructed", "not_constructed"} =>
        IF BadIdColumns(args)
        THEN pc = "not_constructed" /\ graph = NoGraph
        ELSE pc = "constructed" /\ ExposesCanonical(graph, args)

\* a rename of the constructor cannot be done: the weight column named is
\* not in the edge relation, or a canonical name is taken by another column
BadRename(a) ==
    \/ a.weight_col # "None" /\ a.weight_col \notin Range(a.edges.columns)
    \/ a.id_col # ID /\ ID \in Range(a.nodes.columns)
    \/ a.src_col # SRC /\ SRC \in Range(a.edges.columns)
    \/ a.dst_col # DST /\ DST \in Range(a.edges.columns)
    \/ a.weight_col \notin {"None", WEIGHT} /\ WEIGHT \in Range(a.edges.columns)

\* C15 amended: construction fails, producing no graph, whenever the id,
\* source or destination column is missing or not integer-typed (with a
\* ValueError), and also when the weight column named is missing from the
\* edge relation or a canonical name is already taken; in every other case
\* it succeeds and exposes the relations under the canonical names, all
\* other columns and all rows unchanged.
C15_ConstructionOutcome ==
    pc \in {"constructed", "not_constructed"} =>
        IF BadIdColumns(args) \/ BadRename(args)
        THEN /\ pc = "not_constructed"
             /\ graph = NoGraph
             /\ BadIdColumns(args) <=> raised = "ValueError"
        ELSE pc = "constructed" /\ ExposesCanonical(graph, args)

\* a graph constructed from relations that name id, source and weight
\* their own way
C15_Witness ==
    /\ pc = "constructed"
    /\ args.id_col = "key"
    /\ args.src_col = "from"
    /\ args.weight_col = "w"
    /\ graph.edges.columns = <<SRC, DST, WEIGHT>>
    /\ graph.nodes.columns = <<ID, "name">>

\* C16: on a graph with zero vertices run() terminates right after its first
\* superstep in every configuration it accepts: it never starts a second
\* superstep, whether early stopping is on or off.
C16_EmptyGraphOneSuperstep ==
    (pc \in {"running", "returned"} /\ Len(graph.nodes.rows) = 0) => it <= 1

\* C18: for the graph the karate_club fixture builds, num_nodes returns 33.
C18_KarateClubNumNodes ==
    (pc = "constructed" /\ args = KarateClubArgs /\ num_nodes # Null)
        => num_nodes = <<33>>

\* the row of State(t) for the k-th vertex with the aggregate of the
\* messages that State(t) produces for it, null when there is none
RowWithMessages(s, g, state, k) ==
    LET row == state.rows[k]
        sent == SelectSeq(NewMessages(s, g, state).rows, LAMBDA m : m[ID] = row[ID])
        msgs == [n \in DOMAIN sent |-> sent[n][MSG_COL_NAME][1]]
    IN  [c \in DOMAIN row \cup {MSG_COL_NAME} |->
            IF c # MSG_COL_NAME THEN row[c]
            ELSE IF sent = <<>> THEN Null
            ELSE <<Aggregate(s.agg_expression_func, msgs)>>]

\* C19: a superstep is atomic: every declared column and the active flag of
\* State(t+1) are their update expressions evaluated on the row of State(t)
\* joined with the messages computed from State(t); no expression sees the
\* new value of another column.
C19_SuperstepAtomic ==
    [][(/\ pc = "running"
        /\ it' = it + 1
        /\ pc' # "raised"
        /\ stop_reason' # "no_messages")
       => \A k \in DOMAIN pregel_nodes_data.rows :
            LET old == RowWithMessages(self, graph, pregel_nodes_data, k)
                new == pregel_nodes_data'.rows[k]
            IN  /\ new[ID] = old[ID]
                /\ \A n \in DOMAIN self.vertex_cols :
                        new[self.vertex_cols[n].col_name]
                            = EvalUpdate(self.vertex_cols[n].update_expr, old)
                /\ (self.has_active_flag /\ self.active_flag_upd_expr # "None")
                        => new[ACTIVE_VERTEX_FLAG]
                                = EvalUpdate(self.active_flag_upd_expr, old)
                /\ (self.has_active_flag /\ self.active_flag_upd_expr = "None")
                        => new[ACTIVE_VERTEX_FLAG] = (old[MSG_COL_NAME] # Null)
      ]_vars

\* State(1) of a run with the column prev, a copy of value: vertex 3 got
\* the value 1 in the superstep and its prev is the value it had before
C19_Witness ==
    /\ pc = "running"
    /\ it = 1
    /\ Range(ColNames(self.vertex_cols)) = {"value", "prev"}
    /\ VertexCol(self, "prev").update_expr = "copy_value"
    /\ \E r \in Range(pregel_nodes_data.rows) :
            r[ID] = 3 /\ r["value"] = 1 /\ r["prev"] = 0

\* the step is a superstep that got to its update, and it cached the state
CompletesSuperstep ==
    /\ pc = "running"
    /\ it' = it + 1
    /\ pc' # "raised"
    /\ stop_reason' # "no_messages"

CachesState ==
    \E k \in DOMAIN backend' \ DOMAIN backend : backend'[k].op = "cache"

\* C20 as stated: superstep t, counted from 0, materializes State(t+1) if
\* and only if checkpoint_interval > 0 and t % checkpoint_interval = 0.
C20_CheckpointWhenTDivides ==
    [][CompletesSuperstep
        => (CachesState <=> (/\ self.checkpoint_interval > 0
                             /\ it % self.checkpoint_interval = 0))
      ]_vars

\* C20 amended: superstep t, counted from 0, materializes State(t+1) if and
\* only if checkpoint_interval > 0 and (t + 1) % checkpoint_interval = 0:
\* the states cached are State(c), State(2c), ...; with interval 0 the state
\* is never materialized, and a materialized state is the new state.
C20_CheckpointWhenNextDivides ==
    [][CompletesSuperstep
        => /\ CachesState <=> (/\ self.checkpoint_interval > 0
                               /\ (it + 1) % self.checkpoint_interval = 0)
           /\ CachesState => Materialize("cache", it + 1) \in Range(backend')
           /\ \A k \in DOMAIN backend : backend'[k] = backend[k]
      ]_vars

\* with interval 2 the first superstep cached nothing and the second cached
\* State(2)
C20_Witness ==
    /\ pc = "running"
    /\ self.checkpoint_interval = 2
    /\ it = 2
    /\ Materialize("cache", 2) \in Range(backend)
    /\ Materialize("cache", 1) \notin Range(backend)

-----------------------------------------------------------------------------
(* page_rank.  A call of page_rank(graph, alpha, max_iters, tol) configures *)
(* a Pregel on the graph joined with its degrees, runs it and renames the    *)
(* output.                                                                   *)

\* the largest max_iters of a call
MaxIters == 3

\* a graph as the constructor builds it from a list of ids and of (src, dst)
GraphOf(ids, pairs, directed) ==
    IbisGraph(Args(Table(<<"id">>, [c \in {"id"} |-> "int64"],
                         [k \in DOMAIN ids |-> [id |-> ids[k]]]),
                   Table(<<"src", "dst">>, [c \in {"src", "dst"} |-> "int64"],
                         [k \in DOMAIN pairs |-> [src |-> pairs[k][1], dst |-> pairs[k][2]]]),
                   directed, "id", "src", "dst", "None")).graph

\* the graph of test_simple_graph
SimpleGraph ==
    GraphOf(<<0, 1, 2, 3, 4>>,
            <<<<0, 1>>, <<1, 2>>, <<2, 4>>, <<2, 0>>, <<3, 4>>, <<4, 0>>, <<4, 2>>>>, TRUE)

\* a directed cycle, an undirected path and an undirected star with every
\* edge stored once, a directed edge into a vertex without an outgoing edge,
\* and the graph without a vertex
PageRankGraphs ==
    {SimpleGraph,
     GraphOf(<<1, 2, 3>>, <<<<1, 2>>, <<2, 3>>, <<3, 1>>>>, TRUE),
     GraphOf(<<1, 2, 3>>, <<<<1, 2>>, <<2, 3>>>>, FALSE),
     GraphOf(<<1, 2, 3, 4>>, <<<<1, 2>>, <<1, 3>>, <<4, 1>>>>, FALSE),
     GraphOf(<<1, 2>>, <<<<1, 2>>>>, TRUE),
     GraphOf(<<>>, <<>>, TRUE)}

\* the arguments of a call of page_rank
PageRankArgs(g, alpha, max_iters, tol) ==
    [graph |-> g, alpha |-> alpha, max_iters |-> max_iters, tol |-> tol]

PageRankCalls ==
    {PageRankArgs(g, alpha, max_iters, tol) :
        g \in PageRankGraphs, alpha \in {Q(0, 1), Q(1, 2), Q(17, 20)},
        max_iters \in 0..MaxIters, tol \in {Q(1, 10000), Q(1, 10)}}

\* the number of edges of g whose column col holds v
EdgeCount(g, col, v) ==
    Cardinality({k \in DOMAIN g.edges.rows : g.edges.rows[k][col] = v})

\* out_degrees(graph): one row per vertex with an outgoing edge
out_degrees(g) ==
    LET ids == SortedSeq({r[SRC] : r \in Range(g.edges.rows)})
    IN  Table(<<"node_id", "out_degree">>,
              [c \in {"node_id", "out_degree"} |-> "int64"],
              [k \in DOMAIN ids |->
                    [node_id |-> ids[k], out_degree |-> EdgeCount(g, SRC, ids[k])]])

\* degrees(graph): one row per vertex with an edge, counting the edges at it
degrees(g) ==
    LET ids == SortedSeq({r[SRC] : r \in Range(g.edges.rows)}
                            \cup {r[DST] : r \in Range(g.edges.rows)})
    IN  Table(<<"node_id", "degree">>,
              [c \in {"node_id", "degree"} |-> "int64"],
              [k \in DOMAIN ids |->
                    [node_id |-> ids[k],
                     degree |-> EdgeCount(g, SRC, ids[k]) + EdgeCount(g, DST, ids[k])]])

\* left.join(right, [id_]): the inner join, the key kept once
Join(left, right) ==
    LET added == SelectSeq(right.columns, LAMBDA c : c # ID)
        columns == left.columns \o added
        joined(l) ==
            LET m == SelectSeq(right.rows, LAMBDA r : r[ID] = l[ID])
            IN  [k \in DOMAIN m |->
                    [c \in Range(columns) |-> IF c \in DOMAIN l THEN l[c] ELSE m[k][c]]]
    IN  Table(columns,
              [c \in Range(columns) |->
                    IF c \in Range(left.columns) THEN left.types[c] ELSE right.types[c]],
              Concat([k \in DOMAIN left.rows |-> joined(left.rows[k])]))

\* tmp_degrees
TmpDegrees(g) ==
    IF g.directed
    THEN Rename(Rename(out_degrees(g), ID, "node_id"), "degree", "out_degree")
    ELSE Rename(degrees(g), ID, "node_id")

\* new_g: the graph handed to Pregel
NewG(g) ==
    IbisGraph(Args(Join(g.nodes, TmpDegrees(g)), g.edges, FALSE, ID, SRC, DST, "None")).graph

\* the builder page_rank configures, or the exception of the setter that
\* ended the chain
PageRankPregel(a) ==
    LET pagerank == add_vertex_col(NewPregel, "pagerank", "initial_scores", "rank_upd_expr").self
        err == add_vertex_col(pagerank, "err", "literal_100",
                              "pagerank_minus_rank_upd_expr_abs").self
        msg == add_message_to_dst(err, "src_pagerank_per_degree").self
        agg == set_agg_expression_func(msg, "collect_sums").self
        flag == set_has_active_flag(agg, TRUE).self
        upd == set_active_flag_upd_col(flag, "err_ge_tol").self
        early == set_early_stopping(upd, TRUE).self
        iters == set_max_iter(early, a.max_iters)
        stop == set_stop_if_all_unactive(iters.self, TRUE).self
    IN  IF iters.raised # "None" THEN iters
        ELSE IF ~a.graph.directed THEN add_message_to_src(stop, "dst_pagerank_per_degree")
        ELSE Returned(stop)

\* page_rank up to the call of run(): the exception it raises or "None",
\* the number of vertices it read, new_g and the builder
PageRankSetup(a) ==
    LET failed(exc, n) == [raised |-> exc, num_nodes |-> n, graph |-> NoGraph,
                           self |-> NewPregel]
    IN  IF QGeq(QInt(0), a.alpha) \/ QGeq(a.alpha, QInt(1))
        THEN failed("ValueError", Null)
        ELSE IF NumNodes(a.graph) = 0
        THEN failed("ZeroDivisionError", <<0>>)
        ELSE [raised |-> PageRankPregel(a).raised,
              num_nodes |-> <<NumNodes(a.graph)>>,
              graph |-> NewG(a.graph),
              self |-> PageRankPregel(a).self]

\* output.rename({"node_id": id_}).select("node_id", "pagerank")
PageRankOutput(output) ==
    [columns |-> <<"node_id", "pagerank">>,
     rows |-> [k \in DOMAIN output.rows |->
                [node_id |-> output.rows[k][ID], pagerank |-> output.rows[k]["pagerank"]]]]

PageRankInit ==
    /\ args \in PageRankCalls
    /\ graph = NoGraph
    /\ self = NewPregel
    /\ pc = "call"
    /\ raised = NoRun.raised
    /\ it = NoRun.it
    /\ pregel_nodes_data = NoRun.pregel_nodes_data
    /\ stop_reason = NoRun.stop_reason
    /\ backend = NoRun.backend
    /\ result = NoRun.result
    /\ num_nodes = Null

\* page_rank is called: the code before run()
PageRankConfigure ==
    /\ pc = "call"
    /\ raised' = PageRankSetup(args).raised
    /\ num_nodes' = PageRankSetup(args).num_nodes
    /\ graph' = PageRankSetup(args).graph
    /\ self' = PageRankSetup(args).self
    /\ pc' = IF PageRankSetup(args).raised = "None" THEN "config" ELSE "raised"
    /\ backend' = IF PageRankSetup(args).num_nodes = Null THEN backend
                  ELSE Append(backend, Materialize("count", 0))
    /\ UNCHANGED <<it, pregel_nodes_data, stop_reason, result, args>>

\* pregel.run() is called
PageRankRun ==
    /\ pc = "config"
    /\ SetLocals(Start(self, graph))
    /\ UNCHANGED <<graph, self, args, num_nodes>>

\* run() has returned: page_rank returns the renamed output
PageRankReturn ==
    /\ pc = "returned"
    /\ pc' = "done"
    /\ result' = PageRankOutput(result)
    /\ UNCHANGED <<graph, self, raised, it, pregel_nodes_data, stop_reason, backend, args,
                   num_nodes>>

PageRankNext ==
    \/ PageRankConfigure
    \/ PageRankRun
    \/ RunSuperstep
    \/ RunLoopExit
    \/ PageRankReturn

PageRankSpec == PageRankInit /\ [][PageRankNext]_vars

\* the sum of the column pagerank
RECURSIVE SumPagerank(_)
SumPagerank(rows) ==
    IF rows = <<>> THEN QInt(0) ELSE QAdd(Head(rows)["pagerank"], SumPagerank(Tail(rows)))

\* pytest.approx(1.0, 1e-4)
ApproxOne(x) == QGeq(Q(1, 10000), QAbs(QSub(x, QInt(1))))

\* the graphs of the claim: directed with an outgoing edge at every vertex,
\* or undirected with every edge stored once and no isolated vertex
ConservesRank(g) ==
    LET e == g.edges.rows
        ids == {r[ID] : r \in Range(g.nodes.rows)}
    IN  IF g.directed
        THEN \A v \in ids : \E k \in DOMAIN e : e[k][SRC] = v
        ELSE /\ \A v \in ids : \E k \in DOMAIN e : e[k][SRC] = v \/ e[k][DST] = v
             /\ \A j, k \in DOMAIN e :
                    j # k => /\ <<e[j][SRC], e[j][DST]>> # <<e[k][SRC], e[k][DST]>>
                             /\ <<e[j][SRC], e[j][DST]>> # <<e[k][DST], e[k][SRC]>>

\* C17: on a graph that conserves rank the sum of pagerank is 1 within 1e-4
\* in State(t) for every t, in the relation run() returns and in the relation
\* page_rank returns, whichever way the loop was left.
C17_RankConserved ==
    (pc \in {"running", "returned", "done"} /\ ConservesRank(args.graph))
        => /\ ApproxOne(SumPagerank(pregel_nodes_data.rows))
           /\ pc \in {"returned", "done"} => ApproxOne(SumPagerank(result.rows))
           /\ Len(pregel_nodes_data.rows) = NumNodes(args.graph)

\* page_rank returned after the all-inactive probe ended the third superstep
\* of test_simple_graph, the ranks of the vertices being unequal
C17_Witness ==
    /\ pc = "done"
    /\ args.graph = SimpleGraph
    /\ ConservesRank(args.graph)
    /\ stop_reason = "all_inactive"
    /\ it = 3
    /\ Cardinality({r["pagerank"] : r \in Range(result.rows)}) > 2

-----------------------------------------------------------------------------
(* Message routing *)

\* the row of state with the id v
RowOf(state, v) == CHOOSE r \in Range(state.rows) : r[ID] = v

\* the message the k-th declaration emits on the edge e
EdgeMessage(s, state, e, k) ==
    EvalMessage(s.messages[k].msg_expr, RowOf(state, e[SRC]), RowOf(state, e[DST]))

\* the (edge, declaration) pairs of a superstep on state that address a
\* non-null message to the vertex v, read off the edge relation
Addressed(s, g, state, v) ==
    LET ids == {r[ID] : r \in Range(state.rows)}
        passes(e) ==
            s.filter_messages_from_non_active
                => \/ RowOf(state, e[SRC])[ACTIVE_VERTEX_FLAG]
                   \/ RowOf(state, e[DST])[ACTIVE_VERTEX_FLAG]
    IN  {p \in (DOMAIN g.edges.rows) \X (DOMAIN s.messages) :
            LET e == g.edges.rows[p[1]] IN
            /\ e[SRC] \in ids /\ e[DST] \in ids
            /\ passes(e)
            /\ EdgeMessage(s, state, e, p[2]) # Null
            /\ v = (IF s.messages[p[2]].target_column = SRC THEN e[SRC] ELSE e[DST])}

\* the aggregate of the messages addressed to v, null when there is none
Inbox(s, g, state, v) ==
    LET pairs == SetToSeq(Addressed(s, g, state, v))
        msgs == [n \in DOMAIN pairs |->
                    EdgeMessage(s, state, g.edges.rows[pairs[n][1]], pairs[n][2])[1]]
    IN  IF pairs = <<>> THEN Null ELSE <<Aggregate(s.agg_expression_func, msgs)>>

\* C21: in a superstep every edge whose endpoints pass the active filter
\* delivers, for every declaration that is non-null on it, one message to its
\* source (add_message_to_src) or its destination (add_message_to_dst); the
\* update of a vertex sees the aggregate of exactly the messages addressed to
\* it, and a null _pregel_msg when there is none; a superstep left by the
\* early-stopping probe addressed no message to any vertex.
C21_MessageRouting ==
    [][/\ CompletesSuperstep
          => \A k \in DOMAIN pregel_nodes_data.rows :
                LET row == pregel_nodes_data.rows[k]
                    old == [c \in DOMAIN row \cup {MSG_COL_NAME} |->
                                IF c = MSG_COL_NAME
                                THEN Inbox(self, graph, pregel_nodes_data, row[ID])
                                ELSE row[c]]
                    new == pregel_nodes_data'.rows[k]
                IN  /\ new[ID] = row[ID]
                    /\ \A n \in DOMAIN self.vertex_cols :
                            new[self.vertex_cols[n].col_name]
                                = EvalUpdate(self.vertex_cols[n].update_expr, old)
                    /\ (self.has_active_flag /\ self.active_flag_upd_expr = "None")
                            => new[ACTIVE_VERTEX_FLAG] = (old[MSG_COL_NAME] # Null)
       /\ (pc = "running" /\ pc' = "returned" /\ stop_reason' = "no_messages")
          => \A r \in Range(pregel_nodes_data.rows) :
                Addressed(self, graph, pregel_nodes_data, r[ID]) = {}
      ]_vars

\* State(1) of a run that sums the messages of a declaration to the source
\* and of one to the destination: vertex 1 got its own value back along
\* 1 -> 3, vertex 3 got the values of 1 and 2 and its own along 3 -> 4, the
\* isolated vertex 5 got no message
C21_Witness ==
    /\ pc = "running"
    /\ it = 1
    /\ {self.messages[k].target_column : k \in DOMAIN self.messages} = {SRC, DST}
    /\ self.agg_expression_func = "sum"
    /\ Len(self.vertex_cols) = 1
    /\ VertexCol(self, "value").update_expr = "msg_or_zero"
    /\ \E r \in Range(pregel_nodes_data.rows) : r[ID] = 1 /\ r["value"] = 1
    /\ \E r \in Range(pregel_nodes_data.rows) : r[ID] = 3 /\ r["value"] = 1
    /\ \E r \in Range(pregel_nodes_data.rows) : r[ID] = 5 /\ r["value"] = 0

-----------------------------------------------------------------------------
(* The filter on the messages of inactive vertices *)

\* the edges of g with an endpoint whose _active_flag is true in state
ActiveEdges(g, state) ==
    {j \in DOMAIN g.edges.rows :
        \/ RowOf(state, g.edges.rows[j][SRC])[ACTIVE_VERTEX_FLAG]
        \/ RowOf(state, g.edges.rows[j][DST])[ACTIVE_VERTEX_FLAG]}

\* the (edge, declaration) pairs with a non-null message among the edges E
EmittedOn(s, g, state, E) ==
    {p \in E \X (DOMAIN s.messages) : EdgeMessage(s, state, g.edges.rows[p[1]], p[2]) # Null}

\* the vertex the pair p addresses
TargetOf(s, g, p) ==
    IF s.messages[p[2]].target_column = SRC
    THEN g.edges.rows[p[1]][SRC] ELSE g.edges.rows[p[1]][DST]

\* C22: with the filter enabled the messages of a superstep are those the
\* declarations emit on the edges with at least one endpoint active in
\* State(t), an edge between two inactive vertices giving nothing to either
\* of them; with the filter disabled they are those emitted on all edges,
\* whatever the flags.  The early-stopping probe and the default update of
\* the flag see exactly these messages.
C22_FilterOnActiveEndpoint ==
    [][(pc = "running" /\ it' = it + 1 /\ pc' # "raised")
       => LET E == IF self.filter_messages_from_non_active
                   THEN ActiveEdges(graph, pregel_nodes_data)
                   ELSE DOMAIN graph.edges.rows
              emitted == EmittedOn(self, graph, pregel_nodes_data, E)
              sent == NewMessages(self, graph, pregel_nodes_data).rows
          IN  /\ \A r \in Range(pregel_nodes_data.rows) :
                    Cardinality({n \in DOMAIN sent : sent[n][ID] = r[ID]})
                        = Cardinality({p \in emitted : TargetOf(self, graph, p) = r[ID]})
              /\ Len(sent) = Cardinality(emitted)
              /\ (stop_reason' = "no_messages")
                    <=> (self.do_early_stopping /\ emitted = {})
              /\ (stop_reason' # "no_messages" /\ self.active_flag_upd_expr = "None")
                    => \A r \in Range(pregel_nodes_data'.rows) :
                            r[ACTIVE_VERTEX_FLAG]
                                <=> \E p \in emitted : TargetOf(self, graph, p) = r[ID]
      ]_vars

\* State(1) of a filtered run on the two components: 1 -> 2 had its source
\* active and delivered to 2; 3 -> 4 had both endpoints inactive and gave 4
\* nothing, though its declaration emits on it
C22_Witness ==
    /\ pc = "running"
    /\ it = 1
    /\ graph = TwoComponentGraph
    /\ self.filter_messages_from_non_active
    /\ self.active_flag_upd_expr = "None"
    /\ ActiveEdges(graph, InitialState(self, graph)) = {1}
    /\ <<2, 1>> \in EmittedOn(self, graph, InitialState(self, graph), {2})
    /\ self.messages[1].target_column = DST
    /\ \E r \in Range(pregel_nodes_data.rows) : r[ID] = 2 /\ r[ACTIVE_VERTEX_FLAG]
    /\ \E r \in Range(pregel_nodes_data.rows) : r[ID] = 4 /\ ~r[ACTIVE_VERTEX_FLAG]

-----------------------------------------------------------------------------
(* Materialization points *)

\* the materializations of kind op a run has asked for
Asked(op) == {k \in DOMAIN backend : backend[k].op = op}

\* C23 as stated: run() makes the backend materialize only at the
\* early-stopping probe, the all-inactive probe and the checkpoints, so with
\* early stopping off, stop_if_all_unactive off and checkpoint_interval = 0
\* it triggers no materialization at all.
C23_MaterializesOnlyAtProbes ==
    pc \in {"running", "returned"}
        => /\ \A k \in DOMAIN backend : backend[k].op \in {"count", "distinct", "cache"}
           /\ (/\ ~self.do_early_stopping
               /\ ~self.stop_if_all_non_active
               /\ self.checkpoint_interval = 0) => backend = <<>>

\* C23 amended: run() makes the backend materialize at the caching of the
\* packed edges before the loop, and after it only at the early-stopping
\* probe, the all-inactive probe and the checkpoints, each at most once per
\* superstep and only when its setting is on; with early stopping off,
\* stop_if_all_unactive off and checkpoint_interval = 0 the edge cache is the
\* only materialization of the run.
C23_MaterializesEdgesAndProbes ==
    pc \in {"running", "returned"}
        => /\ Len(backend) >= 1
           /\ backend[1] = Materialize("cache_edges", 0)
           /\ \A k \in DOMAIN backend \ {1} :
                /\ backend[k].op \in {"count", "distinct", "cache"}
                /\ backend[k].it \in 1..it
                /\ \A j \in DOMAIN backend : backend[j] = backend[k] => j = k
           /\ Asked("count") # {} => self.do_early_stopping
           /\ Asked("distinct") # {} => self.stop_if_all_non_active
           /\ Asked("cache") # {} => self.checkpoint_interval > 0
           /\ (/\ ~self.do_early_stopping
               /\ ~self.stop_if_all_non_active
               /\ self.checkpoint_interval = 0)
                => backend = <<Materialize("cache_edges", 0)>>

\* a run of two supersteps with both probes off and no checkpoints, which
\* asked the backend for the edge cache and nothing else
C23_Witness ==
    /\ pc = "returned"
    /\ ~self.do_early_stopping
    /\ ~self.stop_if_all_non_active
    /\ self.checkpoint_interval = 0
    /\ it = 2
    /\ Len(result.rows) = 5
    /\ backend = <<Materialize("cache_edges", 0)>>

-----------------------------------------------------------------------------
(* Termination.  run() is sequential code: a loop that can make a step makes *)
(* it, and a loop whose condition is false is left.  This is weak fairness   *)
(* of the steps of run(); a step of run() is enabled exactly when pc is      *)
(* "running", so the condition is written without ENABLED.                   *)

\* a step of a call of run() that has started
RunStep == RunSuperstep \/ RunLoopExit

\* WF_vars(RunStep), with ENABLED <<RunStep>>_vars written as pc = "running"
RunFairness == []<>(pc # "running") \/ []<><<RunStep>>_vars

ActiveFairSpec == ActiveSpec /\ RunFairness

\* the same builder with both probes switched off
WithoutProbes(s) ==
    [s EXCEPT !.do_early_stopping = FALSE, !.stop_if_all_non_active = FALSE]

\* why a returned run returned
ReturnedFor ==
    /\ stop_reason \in {"max_iter", "no_messages", "all_inactive"}
    /\ stop_reason = "max_iter"
        => /\ it = self.max_iter
           /\ result = run(WithoutProbes(self), graph).result
           /\ run(WithoutProbes(self), graph).it = self.max_iter
    /\ stop_reason = "no_messages"
        => /\ self.do_early_stopping
           /\ it \in 1..self.max_iter
           /\ NewMessages(self, graph, pregel_nodes_data).rows = <<>>
    /\ stop_reason = "all_inactive"
        => /\ self.stop_if_all_non_active
           /\ it \in 1..self.max_iter
           /\ pregel_nodes_data.rows # <<>>
           /\ \A r \in Range(pregel_nodes_data.rows) : ~r[ACTIVE_VERTEX_FLAG]
    /\ it < self.max_iter => stop_reason # "max_iter"

\* C24: a run() that has started ends, by returning or by raising; a run()
\* that returned did so because max_iter supersteps were made, or the
\* early-stopping probe of its last superstep counted no message, or the
\* all-inactive probe of its last superstep found every vertex inactive; a
\* run that no probe ended made exactly max_iter supersteps and returned
\* State(max_iter), the state of the run with the probes off.
C24_Terminates ==
    /\ [](pc = "returned" => ReturnedFor)
    /\ (pc = "running") ~> (pc \in {"returned", "raised"})

\* a run the all-inactive probe ended before max_iter
C24_Witness ==
    /\ pc = "returned"
    /\ stop_reason = "all_inactive"
    /\ it < self.max_iter
    /\ self.do_early_stopping
    /\ Len(result.rows) >= 3

-----------------------------------------------------------------------------
(* The original vertex columns *)

\* every vertex of the input has one row in table, with the input's value
\* in every original column, and table has no other row
KeepsOriginals(g, table) ==
    /\ Len(table.rows) = Len(g.nodes.rows)
    /\ Range(g.nodes.columns) \subseteq Range(table.columns)
    /\ \A v \in Range(g.nodes.rows) :
            \E k \in DOMAIN table.rows :
                /\ \A c \in Range(g.nodes.columns) : table.rows[k][c] = v[c]
                /\ \A j \in DOMAIN table.rows : table.rows[j][ID] = v[ID] => j = k

\* C25: in every State(t) and in the returned relation every vertex of the
\* input has its one row, with the value of the input in every original
\* column; the columns of a state are the original ones, the declared ones
\* and _active_flag, so that a superstep changes only these last.
C25_OriginalColumnsKept ==
    /\ pc \in {"running", "returned"}
        => /\ KeepsOriginals(graph, pregel_nodes_data)
           /\ pregel_nodes_data.columns = StateColumns(self, graph)
    /\ pc = "returned" => KeepsOriginals(graph, result)

\* a returned run of two supersteps or more on the graph with the column
\* name: vertex 3 has the value a message gave it and the name it came with
C25_Witness ==
    /\ pc = "returned"
    /\ it >= 2
    /\ "name" \in Range(graph.nodes.columns)
    /\ \E r \in Range(result.rows) : r[ID] = 3 /\ r["value"] = 1 /\ r["name"] = 30
    /\ \E r \in Range(result.rows) : r[ID] = 5 /\ r["value"] = 0 /\ r["name"] = 50

-----------------------------------------------------------------------------
(* page_rank: the active flag *)

\* C26: in page_rank the active flag a superstep gives a vertex is true
\* exactly when the vertex's rank after the superstep differs from its rank
\* before it by tol or more, so that the all-inactive probe ends the run
\* right after the first superstep in which every rank moved by less than
\* tol.
C26_FlagFollowsRankChange ==
    [][CompletesSuperstep
        => /\ \A k \in DOMAIN pregel_nodes_data.rows :
                LET old == pregel_nodes_data.rows[k]
                    new == pregel_nodes_data'.rows[k]
                IN  new[ACTIVE_VERTEX_FLAG]
                        <=> QGeq(QAbs(QSub(new["pagerank"], old["pagerank"])), args.tol)
           /\ (stop_reason' = "all_inactive")
                <=> \A k \in DOMAIN pregel_nodes_data.rows :
                        ~QGeq(QAbs(QSub(pregel_nodes_data'.rows[k]["pagerank"],
                                        pregel_nodes_data.rows[k]["pagerank"])),
                              args.tol)
      ]_vars

-----------------------------------------------------------------------------
(* run() and the builder *)

\* the step belongs to a call of run(): its start, a superstep or its end
IsRunStep == pc = "running" \/ pc' \in {"running", "raised"}

\* C27: no step of run() changes the builder or the graph, and a run that
\* returned has the result, the supersteps and the stop reason that the
\* builder and the graph determine: run() called again on the same Pregel
\* starts from the same builder and graph, so it returns a relation with the
\* contents of the one before.
C27_RunLeavesBuilder ==
    /\ [][IsRunStep => (self' = self /\ graph' = graph)]_vars
    /\ [](pc = "returned" => SameContents(Locals, run(self, graph)))

\* a run that returned State(2), where the messages gave vertices 3 and 4
\* the value 1, on a builder that still holds its declarations
C27_Witness ==
    /\ pc = "returned"
    /\ it = 2
    /\ stop_reason = "max_iter"
    /\ Len(self.messages) = 1
    /\ Len(self.vertex_cols) = 1
    /\ \E r \in Range(result.rows) : r[ID] = 4 /\ r["value"] = 1
    /\ \E r \in Range(result.rows) : r[ID] = 3 /\ r["value"] = 1

====
